---- MODULE Spec2Model ----
(***************************************************************************)
(* Emotion fusion and target-parameter building of                         *)
(* src/backend/emotion_api.py (class EmotionDetector), playlist            *)
(* generation, ordering and filtering of src/backend/playlist_logic.py,    *)
(* the baselines and the reading threads of                                *)
(* src/sensors/heart_rate_sensor.py, the tokens of SpotifyClient           *)
(* (src/backend/spotify_api.py) and the OAuth flow of src/backend/app.py.  *)
(*                                                                         *)
(* Units.  Python floats are modelled as exact integers:                   *)
(*   - feature values (valence, energy, instrumentalness, acousticness)    *)
(*     and classifier scores are in thousandths (0.7 is 700);              *)
(*   - target_bpm is in tenths of a BPM (100 BPM is 1000);                 *)
(*   - heart_rate is the integer BPM the caller passes, popularity the     *)
(*     integer the code assigns.                                           *)
(* Every constant of the code is a multiple of these units, so sums and    *)
(* products are exact.  A Python dict is a function whose DOMAIN is the    *)
(* set of keys present; the 'timestamp' entries are left out.              *)
(* None is <<>> and a present heart rate h is <<h>>.                       *)
(***************************************************************************)
EXTENDS Integers, Sequences, FiniteSets, TLC

VARIABLES
    \* EmotionDetector (emotion_api.py)
    pc, face_emotion, heart_rate, adjusted_emotion, assessment,
    call, activity, user_goal, result,
    \* generate_playlist_based_on_mood (playlist_logic.py)
    gp_pc, gp_args, genre_lookup, seeds, recommendation_params, request,
    tracks, feature_lookup, scored_tracks, playlist,
    \* one call of a list function of playlist_logic.py, and its result
    lf_call, lf_result,
    \* generate_playlist_recommendations as app.py create_playlist calls it
    rec_pc, tier_results, playlist_tracks, response,
    \* HeartRateSensor instances and the baselines file
    baseline_file, user_baselines, calibration,
    \* dict objects (the static tables and the dicts built by calls), and
    \* the last call made on them
    heap, heap_last,
    \* the batched audio-feature lookup: position, caller, ids, loop index,
    \* calls made
    bf_pc, bf_fn, bf_track_ids, bf_i, lookups,
    \* one HeartRateSensor with its reading threads, the calls in progress,
    \* and what has been observed of them
    is_connected, is_reading, reading_thread, callback, thread_at, caller, observed,
    \* SpotifyClient tokens (spotify_api.py), the clock, and the last make_api_request
    access_token, token_expiry, refresh_token, now, ticks, api_call,
    \* the Flask session of one browser (app.py login, callback) and the last callback
    session, callback_call

emotion_vars == <<pc, face_emotion, heart_rate, adjusted_emotion, assessment,
                  call, activity, user_goal, result>>

playlist_vars == <<gp_pc, gp_args, genre_lookup, seeds, recommendation_params,
                   request, tracks, feature_lookup, scored_tracks, playlist>>

list_vars == <<lf_call, lf_result>>

recommend_vars == <<rec_pc, tier_results, playlist_tracks, response>>

sensor_vars == <<baseline_file, user_baselines, calibration>>

heap_vars == <<heap, heap_last>>

batch_vars == <<bf_pc, bf_fn, bf_track_ids, bf_i, lookups>>

reader_vars == <<is_connected, is_reading, reading_thread, callback,
                 thread_at, caller, observed>>

token_vars == <<access_token, token_expiry, refresh_token, now, ticks, api_call>>

oauth_vars == <<session, callback_call>>

vars ==
    <<emotion_vars, playlist_vars, list_vars, recommend_vars,
      sensor_vars, heap_vars, batch_vars, reader_vars, token_vars,
      oauth_vars>>

\* what the actions of one component leave unchanged
other_than_emotion ==
    <<playlist_vars, list_vars, recommend_vars, sensor_vars,
      heap_vars, batch_vars, reader_vars, token_vars, oauth_vars>>

other_than_playlist ==
    <<emotion_vars, list_vars, recommend_vars, sensor_vars,
      heap_vars, batch_vars, reader_vars, token_vars, oauth_vars>>

other_than_list ==
    <<emotion_vars, playlist_vars, recommend_vars, sensor_vars,
      heap_vars, batch_vars, reader_vars, token_vars, oauth_vars>>

other_than_recommend ==
    <<emotion_vars, playlist_vars, list_vars, sensor_vars,
      heap_vars, batch_vars, reader_vars, token_vars, oauth_vars>>

other_than_sensor ==
    <<emotion_vars, playlist_vars, list_vars, recommend_vars,
      heap_vars, batch_vars, reader_vars, token_vars, oauth_vars>>

other_than_heap ==
    <<emotion_vars, playlist_vars, list_vars, recommend_vars,
      sensor_vars, batch_vars, reader_vars, token_vars, oauth_vars>>

other_than_batch ==
    <<emotion_vars, playlist_vars, list_vars, recommend_vars,
      sensor_vars, heap_vars, reader_vars, token_vars, oauth_vars>>

other_than_reader ==
    <<emotion_vars, playlist_vars, list_vars, recommend_vars,
      sensor_vars, heap_vars, batch_vars, token_vars, oauth_vars>>

other_than_token ==
    <<emotion_vars, playlist_vars, list_vars, recommend_vars,
      sensor_vars, heap_vars, batch_vars, reader_vars, oauth_vars>>

other_than_oauth ==
    <<emotion_vars, playlist_vars, list_vars, recommend_vars,
      sensor_vars, heap_vars, batch_vars, reader_vars, token_vars>>

(* ------------------------------ bounds -------------------------------- *)
MinHR == 65
MaxHR == 130
\* heart rates outside MinHR..MaxHR: the ends of the energy boost and of
\* the BPM clamp
ExtremeHeartRates == {40, 59, 60, 61, 159, 160, 161, 400}
HeartRates == (MinHR..MaxHR) \cup ExtremeHeartRates
\* classifier scores of the top emotion, in thousandths
Confidences == {500, 699, 700, 701, 900}

None == <<>>
Some(x) == <<x>>
NoLabel == "None"
NotRun == "not-run"
Raised == "raised"

Min2(a, b) == IF a < b THEN a ELSE b
Max2(a, b) == IF a > b THEN a ELSE b

(* ------------------------------ dicts --------------------------------- *)
\* d[k] = v
Put(d, k, v) == [x \in (DOMAIN d) \cup {k} |-> IF x = k THEN v ELSE d[x]]
\* d.get(k, default)
Get(d, k, default) == IF k \in DOMAIN d THEN d[k] ELSE default

(* --------------------------- static tables ---------------------------- *)
\* the keys of EMOTION_MAP in insertion order
EmotionOrder == <<"anger", "contempt", "disgust", "fear", "happiness",
                  "neutral", "sadness", "surprise">>
Emotions == {EmotionOrder[i] : i \in 1..Len(EmotionOrder)}

EMOTION_MAP == [
    anger     |-> [valence |-> 100, energy |-> 800, tempo |-> "high"],
    contempt  |-> [valence |-> 300, energy |-> 500, tempo |-> "medium"],
    disgust   |-> [valence |-> 200, energy |-> 600, tempo |-> "medium-high"],
    fear      |-> [valence |-> 200, energy |-> 700, tempo |-> "high"],
    happiness |-> [valence |-> 900, energy |-> 700, tempo |-> "medium-high"],
    neutral   |-> [valence |-> 500, energy |-> 500, tempo |-> "medium"],
    sadness   |-> [valence |-> 200, energy |-> 200, tempo |-> "low"],
    surprise  |-> [valence |-> 700, energy |-> 800, tempo |-> "high"]]

RESTING_HR == 70
HIGH_HR == 110

(* ------------------- detect_emotion_from_image ------------------------ *)
\* The classifier's score distributions the model draws from: the top
\* emotion scores c, one other emotion takes what is left (at most c), the
\* rest score 0.  At c = 500 the two tie.
ScoreVector(top, second, c) ==
    [e \in Emotions |-> IF e = top THEN c
                        ELSE IF e = second THEN Min2(c, 1000 - c) ELSE 0]

\* max(emotion_scores, key=emotion_scores.get): the first key, in insertion
\* order, whose score is the highest
PrimaryOf(scores) ==
    LET best == CHOOSE i \in 1..Len(EmotionOrder) :
                  /\ \A j \in 1..Len(EmotionOrder) :
                        scores[EmotionOrder[j]] <= scores[EmotionOrder[i]]
                  /\ \A j \in 1..(i - 1) :
                        scores[EmotionOrder[j]] < scores[EmotionOrder[i]]
    IN EmotionOrder[best]

\* the result dict of a scored face ('all_emotions' is read by nothing
\* downstream and is left out)
ScoredResult(scores) ==
    LET primary_emotion == PrimaryOf(scores) IN
    [primary_emotion |-> primary_emotion,
     confidence      |-> scores[primary_emotion],
     music_params    |-> EMOTION_MAP[primary_emotion]]

NoFaceResult ==
    [primary_emotion |-> "neutral", music_params |-> EMOTION_MAP["neutral"]]

ErrorResult(msg) == [error |-> msg]

(* ---------------- _adjust_emotion_with_heart_rate --------------------- *)
\* _adjust_emotion_with_heart_rate with other thresholds: the variants
\* below differ from the code in one threshold each
AdjustWith(emotion, confidence, hr, trusted, high, resting) ==
    IF confidence > trusted THEN emotion
    ELSE IF hr = None THEN Raised
    ELSE IF hr[1] > high
         THEN IF emotion \in {"neutral", "sadness", "contempt"}
              THEN (IF hr[1] > 120 THEN "excitement" ELSE "stress")
              ELSE emotion
    ELSE IF hr[1] < resting
         THEN IF emotion \in {"anger", "fear", "surprise"}
              THEN "neutral"
              ELSE emotion
    ELSE emotion

\* variant: the high-heart-rate rule starts above 120 instead of above 110
adjust_high_above_120(emotion, confidence, hr) ==
    AdjustWith(emotion, confidence, hr, 700, 120, 70)
\* variant: the face is trusted only above 0.9
adjust_trusted_above_900(emotion, confidence, hr) ==
    AdjustWith(emotion, confidence, hr, 900, 110, 70)
\* variant: the low-heart-rate rule starts below 60 instead of below 70
adjust_resting_below_60(emotion, confidence, hr) ==
    AdjustWith(emotion, confidence, hr, 700, 110, 60)
\* variant: heart_rate >= HIGH_HR instead of heart_rate > HIGH_HR
adjust_high_from_110(emotion, confidence, hr) ==
    AdjustWith(emotion, confidence, hr, 700, 109, 70)

\* Raised stands for the TypeError of comparing None with a number.
_adjust_emotion_with_heart_rate(emotion, confidence, hr) ==
    IF confidence > 700 THEN emotion
    ELSE IF hr = None THEN Raised
    ELSE IF hr[1] > HIGH_HR
         THEN IF emotion \in {"neutral", "sadness", "contempt"}
              THEN (IF hr[1] > 120 THEN "excitement" ELSE "stress")
              ELSE emotion
    ELSE IF hr[1] < RESTING_HR
         THEN IF emotion \in {"anger", "fear", "surprise"}
              THEN "neutral"
              ELSE emotion
    ELSE emotion

(* ------------------- _get_emotion_from_heart_rate --------------------- *)
\* variant: the bands compare with >= (70 is 'neutral', 90 'stress', 110
\* 'excitement')
get_emotion_bands_from(hr) ==
    LET emotion == IF hr >= 110 THEN "excitement"
                   ELSE IF hr >= 90 THEN "stress"
                   ELSE IF hr >= 70 THEN "neutral"
                   ELSE "relaxed"
    IN [primary_emotion |-> emotion,
        face_emotion    |-> "unknown",
        heart_rate      |-> Some(hr),
        music_params    |->
            IF hr >= 110 THEN
                [valence |-> 800, energy |-> 800, tempo |-> "high"]
            ELSE IF hr >= 90 THEN
                [valence |-> 400, energy |-> 700, tempo |-> "medium-high"]
            ELSE IF hr >= 70 THEN
                [valence |-> 500, energy |-> 500, tempo |-> "medium"]
            ELSE
                [valence |-> 600, energy |-> 300, tempo |-> "low"]]

\* hr is an integer here; combine_sensor_data models the TypeError of None
_get_emotion_from_heart_rate(hr) ==
    LET emotion == IF hr > 110 THEN "excitement"
                   ELSE IF hr > 90 THEN "stress"
                   ELSE IF hr > 70 THEN "neutral"
                   ELSE "relaxed"
        music_params ==
            IF hr > 110 THEN
                [valence |-> 800, energy |-> 800, tempo |-> "high"]
            ELSE IF hr > 90 THEN
                [valence |-> 400, energy |-> 700, tempo |-> "medium-high"]
            ELSE IF hr > 70 THEN
                [valence |-> 500, energy |-> 500, tempo |-> "medium"]
            ELSE
                [valence |-> 600, energy |-> 300, tempo |-> "low"]
    IN [primary_emotion |-> emotion,
        face_emotion    |-> "unknown",
        heart_rate      |-> Some(hr),
        music_params    |-> music_params]

(* -------------------- _calculate_music_parameters --------------------- *)
\* variant: the factor without its clamp
hr_factor_unclamped(hr) == (hr - 60) * 10

\* min(1.0, max(0.0, (heart_rate - 60) / 100)), in thousandths
hr_factor(hr) == Min2(1000, Max2(0, (hr - 60) * 10))

\* hr is an integer here; combine_sensor_data models the TypeError of None
_calculate_music_parameters(emotion, hr) ==
    LET base == IF emotion \in DOMAIN EMOTION_MAP
                THEN EMOTION_MAP[emotion]
                ELSE EMOTION_MAP["neutral"]
        energy == Min2(1000, base.energy + (hr_factor(hr) * 200) \div 1000)
        raw_bpm == IF base.tempo = "low" THEN 700 + (hr - 70) * 3
                   ELSE IF base.tempo = "medium" THEN 900 + (hr - 70) * 3
                   ELSE IF base.tempo = "medium-high" THEN 1100 + (hr - 70) * 3
                   ELSE 1300 + (hr - 70) * 3
    IN Put(Put(base, "energy", energy),
           "target_bpm", Min2(1800, Max2(600, raw_bpm)))

(* ------------------------ combine_sensor_data ------------------------- *)
\* The whole body runs inside try/except: every exception becomes an error
\* result.
combine_sensor_data(face, hr) ==
    IF "error" \in DOMAIN face
    THEN IF hr = None
         THEN ErrorResult("TypeError")
         ELSE _get_emotion_from_heart_rate(hr[1])
    ELSE IF "confidence" \notin DOMAIN face
    THEN ErrorResult("KeyError: confidence")
    ELSE LET adjusted == _adjust_emotion_with_heart_rate(
                             face.primary_emotion, face.confidence, hr)
         IN IF adjusted = Raised \/ hr = None
            THEN ErrorResult("TypeError")
            ELSE [primary_emotion |-> adjusted,
                  face_emotion    |-> face.primary_emotion,
                  heart_rate      |-> hr,
                  music_params    |->
                      _calculate_music_parameters(adjusted, hr[1])]

\* the local adjusted_emotion of combine_sensor_data: NotRun when line 144
\* is not reached
AdjustedLocal(face, hr) ==
    IF "error" \in DOMAIN face \/ "confidence" \notin DOMAIN face
    THEN NotRun
    ELSE _adjust_emotion_with_heart_rate(
             face.primary_emotion, face.confidence, hr)

(* ------------------------- adapt_to_user_goal ------------------------- *)
DefaultParams ==
    [valence |-> 500, energy |-> 500, tempo |-> "medium", target_bpm |-> 1000]

\* params = current_emotion['music_params'].copy(), or the defaults
InputParams(emotion) ==
    IF "music_params" \in DOMAIN emotion
    THEN emotion.music_params
    ELSE DefaultParams

\* current_emotion.get('primary_emotion', 'unknown')
OriginalEmotion(emotion) == Get(emotion, "primary_emotion", "unknown")

\* the goal branches with other label tests and another energy ceiling: the
\* variants below differ from the code in one of them each
GoalAdjustedWith(params, goal, calm_labels, energize_labels, ceiling) ==
    IF goal \in calm_labels THEN
        LET p1 == Put(params, "energy", Max2(100, params.energy - 300))
            p2 == Put(p1, "target_bpm",
                      Max2(600, Get(p1, "target_bpm", 1000) - 300))
            p3 == Put(p2, "tempo", "low")
        IN Put(p3, "valence", 600)
    ELSE IF goal \in energize_labels THEN
        LET p1 == Put(params, "energy", Min2(ceiling, params.energy + 300))
            p2 == Put(p1, "target_bpm",
                      Min2(1800, Get(p1, "target_bpm", 1000) + 300))
            p3 == Put(p2, "tempo", "high")
        IN Put(p3, "valence", Max2(Get(p3, "valence", 500), 700))
    ELSE params

\* variant: 'energize' adds 0.3 to energy without the min(1.0, ...) clamp
goal_energy_unclamped(params, goal) ==
    GoalAdjustedWith(params, goal, {"calm"}, {"energize"}, 5000)
\* variant: 'maintain' takes the 'calm' branch
goal_maintain_calms(params, goal) ==
    GoalAdjustedWith(params, goal, {"calm", "maintain"}, {"energize"}, 1000)
\* variant: the second branch is a plain else for every label the code does
\* not name
goal_unknown_energizes(params, goal) ==
    GoalAdjustedWith(params, goal, {"calm"}, {"energize", "stay_same"}, 1000)

\* the goal branches of adapt_to_user_goal, applied to params
GoalAdjusted(params, goal) ==
    IF goal = "calm" THEN
        LET p1 == Put(params, "energy", Max2(100, params.energy - 300))
            p2 == Put(p1, "target_bpm",
                      Max2(600, Get(p1, "target_bpm", 1000) - 300))
            p3 == Put(p2, "tempo", "low")
        IN Put(p3, "valence", 600)
    ELSE IF goal = "energize" THEN
        LET p1 == Put(params, "energy", Min2(1000, params.energy + 300))
            p2 == Put(p1, "target_bpm",
                      Min2(1800, Get(p1, "target_bpm", 1000) + 300))
            p3 == Put(p2, "tempo", "high")
        IN Put(p3, "valence", Max2(Get(p3, "valence", 500), 700))
    ELSE params

adapt_to_user_goal(current_emotion, goal) ==
    [adapted_goal     |-> goal,
     original_emotion |-> OriginalEmotion(current_emotion),
     music_params     |-> GoalAdjusted(InputParams(current_emotion), goal)]

(* -------------------- get_context_adjusted_params --------------------- *)
\* the activity branches of get_context_adjusted_params, applied to params
ActivityAdjusted(params, act) ==
    IF act = "working" THEN
        Put(Put(params, "instrumentalness", 700), "energy", 500)
    ELSE IF act = "exercising" THEN
        LET p1 == Put(params, "energy", 800)
            p2 == Put(p1, "target_bpm",
                      Max2(1200, Get(p1, "target_bpm", 1000)))
        IN Put(p2, "instrumentalness", 300)
    ELSE IF act = "relaxing" THEN
        LET p1 == Put(params, "energy", 300)
            p2 == Put(p1, "acousticness", 700)
        IN Put(p2, "target_bpm", Min2(900, Get(p2, "target_bpm", 1000)))
    ELSE IF act = "sleeping" THEN
        Put(Put(Put(params, "energy", 100), "instrumentalness", 900),
            "target_bpm", 600)
    ELSE IF act = "socializing" THEN
        Put(Put(Put(params, "valence", 800), "energy", 700),
            "popularity", 70)
    ELSE params

\* variant: the goal adjustment first, the activity adjustment on top of it
context_after_goal(emotion_data, act, goal) ==
    LET goal_adjusted == adapt_to_user_goal(
                             [music_params |-> InputParams(emotion_data)], goal)
    IN [activity         |-> act,
        user_goal        |-> goal,
        original_emotion |-> OriginalEmotion(emotion_data),
        music_params     |-> ActivityAdjusted(goal_adjusted.music_params, act)]

get_context_adjusted_params(emotion_data, act, goal) ==
    LET params == ActivityAdjusted(InputParams(emotion_data), act)
        goal_adjusted == adapt_to_user_goal([music_params |-> params], goal)
    IN [activity         |-> act,
        user_goal        |-> goal,
        original_emotion |-> OriginalEmotion(emotion_data),
        music_params     |-> goal_adjusted.music_params]

(* ------------------------------ inputs -------------------------------- *)
\* goal labels a caller passes: the three the code knows, one it does not
\* know, and None
Goals == {"calm", "energize", "maintain", "stay_same", NoLabel}
KnownActivities ==
    {"working", "exercising", "relaxing", "sleeping", "socializing"}
\* activity labels a caller passes: the five the code knows, one it does
\* not know, and None
Activities == KnownActivities \cup {"studying", NoLabel}

Pending == [pending |-> TRUE]

(* ------------------------------ actions ------------------------------- *)
InitEmotion ==
    /\ pc = "idle"
    /\ face_emotion = Pending
    /\ heart_rate = None
    /\ adjusted_emotion = NotRun
    /\ assessment = Pending
    /\ call = NotRun
    /\ activity = NoLabel
    /\ user_goal = NoLabel
    /\ result = Pending

\* detect_emotion_from_image: a scored face
DetectScored ==
    /\ pc = "idle"
    /\ UNCHANGED other_than_emotion
    /\ \E top \in Emotions, c \in Confidences :
         \E second \in Emotions \ {top} :
            face_emotion' = ScoredResult(ScoreVector(top, second, c))
    /\ pc' = "detected"
    /\ UNCHANGED <<heart_rate, adjusted_emotion, assessment, call, activity,
                   user_goal, result>>

\* detect_emotion_from_image: no face in the image
DetectNoFace ==
    /\ pc = "idle"
    /\ UNCHANGED other_than_emotion
    /\ face_emotion' = NoFaceResult
    /\ pc' = "detected"
    /\ UNCHANGED <<heart_rate, adjusted_emotion, assessment, call, activity,
                   user_goal, result>>

\* detect_emotion_from_image: no image given, or the classifier raised
DetectError ==
    /\ pc = "idle"
    /\ UNCHANGED other_than_emotion
    /\ \E msg \in {"No image provided", "classifier exception"} :
         face_emotion' = ErrorResult(msg)
    /\ pc' = "detected"
    /\ UNCHANGED <<heart_rate, adjusted_emotion, assessment, call, activity,
                   user_goal, result>>

CombineSensorData ==
    /\ pc = "detected"
    /\ UNCHANGED other_than_emotion
    /\ \E hr \in {None} \cup {Some(h) : h \in HeartRates} :
         /\ heart_rate' = hr
         /\ adjusted_emotion' = AdjustedLocal(face_emotion, hr)
         /\ assessment' = combine_sensor_data(face_emotion, hr)
    /\ pc' = "combined"
    /\ UNCHANGED <<face_emotion, call, activity, user_goal, result>>

AdaptToUserGoal ==
    /\ pc = "combined"
    /\ UNCHANGED other_than_emotion
    /\ \E goal \in Goals :
         /\ user_goal' = goal
         /\ result' = adapt_to_user_goal(assessment, goal)
    /\ call' = "adapt_to_user_goal"
    /\ pc' = "done"
    /\ UNCHANGED <<face_emotion, heart_rate, adjusted_emotion, assessment,
                   activity>>

GetContextAdjustedParams ==
    /\ pc = "combined"
    /\ UNCHANGED other_than_emotion
    /\ \E act \in Activities, goal \in Goals :
         /\ activity' = act
         /\ user_goal' = goal
         /\ result' = get_context_adjusted_params(assessment, act, goal)
    /\ call' = "get_context_adjusted_params"
    /\ pc' = "done"
    /\ UNCHANGED <<face_emotion, heart_rate, adjusted_emotion, assessment>>

Next ==
    \/ DetectScored
    \/ DetectNoFace
    \/ DetectError
    \/ CombineSensorData
    \/ AdaptToUserGoal
    \/ GetContextAdjustedParams


(* ======================= properties: emotion fusion =================== *)
\* combine_sensor_data has run
Fused == pc \in {"combined", "done"}
\* the classifier returned a scored emotion
ScoredFace == "confidence" \in DOMAIN face_emotion
\* combine_sensor_data returned an assessment, not an error
HasAssessment == "primary_emotion" \in DOMAIN assessment
HighMismatch == {"neutral", "sadness", "contempt"}
LowMismatch == {"anger", "fear", "surprise"}

\* C1: with a classifier confidence below 0.7, a heart rate above 110 and a
\* top emotion among neutral, sadness, contempt, the fused primary emotion is
\* 'excitement' when the heart rate is above 120 and 'stress' when it is in
\* 111..120; heart rate 130 with 'neutral' at 0.5 gives 'excitement'.
C1_HighHeartRateOverride ==
    (/\ Fused
     /\ ScoredFace
     /\ face_emotion.confidence < 700
     /\ heart_rate # None
     /\ heart_rate[1] > 110
     /\ face_emotion.primary_emotion \in HighMismatch)
    => /\ HasAssessment
       /\ assessment.primary_emotion =
            (IF heart_rate[1] > 120 THEN "excitement" ELSE "stress")
       /\ adjusted_emotion = assessment.primary_emotion

C1_Witness ==
    /\ pc = "combined"
    /\ ScoredFace
    /\ face_emotion.primary_emotion = "neutral"
    /\ face_emotion.confidence = 500
    /\ heart_rate = Some(130)
    /\ HasAssessment
    /\ assessment.primary_emotion = "excitement"

\* C2 as stated: for every confidence greater than or equal to 0.7 the fused
\* primary emotion is the classifier's top emotion, whatever the heart rate.
C2_TrustedFromExactly07 ==
    (/\ Fused
     /\ ScoredFace
     /\ face_emotion.confidence >= 700
     /\ heart_rate # None)
    => /\ HasAssessment
       /\ assessment.primary_emotion = face_emotion.primary_emotion

\* C2 amended: for every confidence strictly greater than 0.7 the label that
\* _adjust_emotion_with_heart_rate selects is the classifier's top emotion
\* for every heart-rate value, None included, and it is the primary emotion
\* of the result for every integer heart rate; at exactly 0.7 the heart-rate
\* rules still apply.
C2_TrustedAbove07 ==
    /\ (/\ Fused
        /\ ScoredFace
        /\ face_emotion.confidence > 700)
       => /\ adjusted_emotion = face_emotion.primary_emotion
          /\ heart_rate # None =>
                /\ HasAssessment
                /\ assessment.primary_emotion = face_emotion.primary_emotion
    /\ (/\ Fused
        /\ ScoredFace
        /\ face_emotion.confidence = 700
        /\ heart_rate # None
        /\ heart_rate[1] > 120
        /\ face_emotion.primary_emotion \in HighMismatch)
       => adjusted_emotion = "excitement"

C2_Witness ==
    /\ pc = "combined"
    /\ ScoredFace
    /\ face_emotion.confidence = 701
    /\ face_emotion.primary_emotion = "neutral"
    /\ heart_rate = Some(130)
    /\ HasAssessment
    /\ assessment.primary_emotion = "neutral"

\* C3: with a classifier confidence below 0.7, a heart rate below 70 and a
\* top emotion among anger, fear, surprise, the fused primary emotion is
\* 'neutral'.
C3_LowHeartRateOverride ==
    (/\ Fused
     /\ ScoredFace
     /\ face_emotion.confidence < 700
     /\ heart_rate # None
     /\ heart_rate[1] < 70
     /\ face_emotion.primary_emotion \in LowMismatch)
    => /\ HasAssessment
       /\ assessment.primary_emotion = "neutral"
       /\ adjusted_emotion = "neutral"

C3_Witness ==
    /\ pc = "combined"
    /\ ScoredFace
    /\ face_emotion.primary_emotion = "anger"
    /\ face_emotion.confidence = 699
    /\ heart_rate = Some(69)
    /\ HasAssessment
    /\ assessment.primary_emotion = "neutral"

C5_BandsAsStated ==
    (/\ Fused
     /\ "error" \in DOMAIN face_emotion
     /\ heart_rate # None)
    => /\ HasAssessment
       /\ assessment.face_emotion = "unknown"
       /\ heart_rate[1] > 110 => assessment.primary_emotion = "excitement"
       /\ (heart_rate[1] > 90 /\ heart_rate[1] <= 110)
             => assessment.primary_emotion = "stress"
       /\ heart_rate[1] = 90
             => assessment.primary_emotion \in {"stress", "neutral"}
       /\ (heart_rate[1] >= 70 /\ heart_rate[1] < 90)
             => assessment.primary_emotion = "neutral"
       /\ heart_rate[1] < 70 => assessment.primary_emotion = "relaxed"

\* C5 amended: on a classifier error the emotion comes from the heart rate
\* alone: above 110 'excitement', 91 to 110 'stress', 71 to 90 'neutral', 70
\* or below 'relaxed'; every integer BPM is in exactly one band and
\* face_emotion is 'unknown'.
C5_HeartRateBands ==
    (/\ Fused
     /\ "error" \in DOMAIN face_emotion
     /\ heart_rate # None)
    => /\ HasAssessment
       /\ assessment.face_emotion = "unknown"
       /\ assessment.heart_rate = heart_rate
       /\ adjusted_emotion = NotRun
       /\ assessment.primary_emotion =
            (IF heart_rate[1] >= 111 THEN "excitement"
             ELSE IF heart_rate[1] >= 91 THEN "stress"
             ELSE IF heart_rate[1] >= 71 THEN "neutral"
             ELSE "relaxed")

C5_Witness ==
    /\ pc = "combined"
    /\ "error" \in DOMAIN face_emotion
    /\ heart_rate = Some(70)
    /\ HasAssessment
    /\ assessment.primary_emotion = "relaxed"
    /\ assessment.face_emotion = "unknown"

\* C6: for every classifier result and every heart-rate value the result of
\* combine_sensor_data carries primary_emotion, face_emotion, heart_rate and
\* music_params, and a primary emotion that is not in EMOTION_MAP has the
\* 'neutral' entry as its base vector.
C6_AlwaysAnAssessment ==
    Fused
    => /\ {"primary_emotion", "face_emotion", "heart_rate", "music_params"}
             \subseteq DOMAIN assessment
       /\ assessment.primary_emotion \notin DOMAIN EMOTION_MAP
             => /\ assessment.music_params.valence
                      = EMOTION_MAP["neutral"].valence
                /\ assessment.music_params.tempo
                      = EMOTION_MAP["neutral"].tempo

(* ================ properties: target parameter builder ================ *)
Done == pc = "done"
\* the music parameters came out of _calculate_music_parameters
Calculated == ScoredFace /\ "music_params" \in DOMAIN assessment
NormalizedFeatures == {"energy", "valence", "instrumentalness", "acousticness"}

\* C7: after _calculate_music_parameters followed by adapt_to_user_goal or
\* get_context_adjusted_params, every normalized feature of the final
\* parameters is in [0, 1] and target_bpm is present and in [40, 200].
C7_FinalParamsInRange ==
    (Done /\ Calculated)
    => /\ \A f \in NormalizedFeatures \cap DOMAIN result.music_params :
             /\ result.music_params[f] >= 0
             /\ result.music_params[f] <= 1000
       /\ {"energy", "valence", "target_bpm"}
             \subseteq DOMAIN result.music_params
       /\ result.music_params.target_bpm >= 400
       /\ result.music_params.target_bpm <= 2000

\* the clamps are reached: energy at 1.0 and target_bpm at 180
C7_Witness ==
    /\ Done
    /\ Calculated
    /\ user_goal = "energize"
    /\ result.music_params.energy = 1000
    /\ result.music_params.target_bpm = 1800

\* C8: with goal 'maintain', adapt_to_user_goal, and
\* get_context_adjusted_params with no activity, return music parameters
\* equal to the music parameters of the assessment they are given.
C8_MaintainIsIdentity ==
    (/\ Done
     /\ "music_params" \in DOMAIN assessment
     /\ user_goal = "maintain"
     /\ \/ call = "adapt_to_user_goal"
        \/ call = "get_context_adjusted_params" /\ activity = NoLabel)
    => /\ result.music_params = assessment.music_params
       /\ result.original_emotion = assessment.primary_emotion

C8_Witness ==
    /\ Done
    /\ Calculated
    /\ user_goal = "maintain"
    /\ call = "get_context_adjusted_params"
    /\ activity = NoLabel
    /\ assessment.primary_emotion = "happiness"
    /\ result.music_params = assessment.music_params

\* the energy each activity branch assigns
ContextEnergy ==
    [working |-> 500, exercising |-> 800, relaxing |-> 300,
     sleeping |-> 100, socializing |-> 700]

BothGiven ==
    /\ Done
    /\ call = "get_context_adjusted_params"
    /\ activity \in KnownActivities
    /\ user_goal \in {"calm", "energize"}

\* C9 as stated (on the parameters of a scored face): with a goal and an
\* activity both given, every feature that both of them set ends with the
\* value the activity sets.
C9_ContextHasFinalSay ==
    (BothGiven /\ Calculated)
    => /\ result.music_params.energy = ContextEnergy[activity]
       /\ activity = "socializing" => result.music_params.valence = 800
       /\ activity = "sleeping" => result.music_params.target_bpm = 600
       /\ activity = "exercising" => result.music_params.target_bpm >= 1200
       /\ activity = "relaxing" => result.music_params.target_bpm <= 900

\* C9 amended: with a goal and an activity both given, the goal adjustment
\* is applied after the activity adjustment, so every feature that both of
\* them set ends with the value the goal adjustment computes from the value
\* the activity set.
C9_GoalHasFinalSay ==
    BothGiven
    => /\ user_goal = "calm" =>
            /\ result.music_params.energy
                  = Max2(100, ContextEnergy[activity] - 300)
            /\ result.music_params.valence = 600
            /\ result.music_params.tempo = "low"
            /\ activity \in {"sleeping", "relaxing"}
                  => result.music_params.target_bpm = 600
            /\ activity = "exercising"
                  => result.music_params.target_bpm >= 900
       /\ user_goal = "energize" =>
            /\ result.music_params.energy
                  = Min2(1000, ContextEnergy[activity] + 300)
            /\ result.music_params.tempo = "high"
            /\ activity = "socializing"
                  => result.music_params.valence = 800
            /\ activity = "sleeping"
                  => result.music_params.target_bpm = 900
            /\ activity = "exercising"
                  => result.music_params.target_bpm >= 1500
            /\ activity = "relaxing"
                  => result.music_params.target_bpm <= 1200

C9_Witness ==
    /\ BothGiven
    /\ activity = "socializing"
    /\ user_goal = "calm"
    /\ result.music_params.valence = 600
    /\ result.music_params.energy = 400

UnknownGoal == user_goal \notin {"calm", "energize", "maintain", NoLabel}
UnknownActivity == activity \notin KnownActivities \cup {NoLabel}

\* C10: an unknown goal label or an unknown activity label raises no error
\* and applies no adjustment: the music parameters returned equal those
\* returned with no goal, respectively with no activity.
C10_UnknownLabelsIgnored ==
    Done
    => /\ "music_params" \in DOMAIN result
       /\ (call = "adapt_to_user_goal" /\ UnknownGoal)
             => /\ result.music_params = InputParams(assessment)
                /\ result.music_params
                      = adapt_to_user_goal(assessment, NoLabel).music_params
       /\ (call = "get_context_adjusted_params" /\ UnknownGoal)
             => result.music_params
                   = get_context_adjusted_params(
                         assessment, activity, NoLabel).music_params
       /\ (call = "get_context_adjusted_params" /\ UnknownActivity)
             => result.music_params
                   = get_context_adjusted_params(
                         assessment, NoLabel, user_goal).music_params
       /\ (call = "get_context_adjusted_params" /\ UnknownGoal
              /\ UnknownActivity)
             => result.music_params = InputParams(assessment)

C10_Witness ==
    /\ Done
    /\ Calculated
    /\ call = "get_context_adjusted_params"
    /\ user_goal = "stay_same"
    /\ activity = "studying"
    /\ result.music_params = assessment.music_params

(***************************************************************************)
(* Playlist generation: src/backend/playlist_logic.py.                     *)
(*                                                                         *)
(* Units.  0-1 features are in thousandths, 'tempo' is in whole BPM,        *)
(* 'mode' 1 is 1000, popularity is the catalog's integer 0..100.  None is   *)
(* <<>> and a present argument x is <<x>>.                                  *)
(***************************************************************************)
MOOD_AUDIO_FEATURES == [
    happy     |-> [energy |-> 700, valence |-> 800, danceability |-> 700,
                   tempo |-> 120, mode |-> 1000, instrumentalness |-> 200],
    sad       |-> [energy |-> 400, valence |-> 300, danceability |-> 500,
                   tempo |-> 90, mode |-> 0, instrumentalness |-> 300],
    angry     |-> [energy |-> 800, valence |-> 300, danceability |-> 600,
                   tempo |-> 140, mode |-> 0, instrumentalness |-> 200],
    relaxed   |-> [energy |-> 300, valence |-> 600, danceability |-> 400,
                   tempo |-> 80, instrumentalness |-> 500,
                   acousticness |-> 600],
    energetic |-> [energy |-> 900, valence |-> 700, danceability |-> 800,
                   tempo |-> 130, instrumentalness |-> 100],
    focused   |-> [energy |-> 500, valence |-> 500, danceability |-> 400,
                   tempo |-> 110, instrumentalness |-> 700]]

(* ------------------------------ lists --------------------------------- *)
\* seq[:n]
Take(seq, n) == SubSeq(seq, 1, Min2(Max2(n, 0), Len(seq)))
\* the elements of a sequence
Range(seq) == {seq[i] : i \in 1..Len(seq)}
\* bool(x) of an optional list: neither None nor empty
Truthy(opt) == opt # None /\ opt[1] # <<>>
\* random.sample(population, k): k elements at distinct positions, in any
\* order
Samples(population, k) ==
    {[i \in 1..k |-> population[pos[i]]] :
        pos \in {q \in [1..k -> 1..Len(population)] :
                    \A i, j \in 1..k : i # j => q[i] # q[j]}}

(* --------------------- seeds (lines 75-125) --------------------------- *)
\* ids of the artist dicts of the first 10 tracks, in first-insertion order
\* (the keys of recent_artists); an artist given as a bare name adds nothing
RECURSIVE ArtistIdsOf(_, _)
ArtistIdsOf(artists, seen) ==
    IF artists = <<>> THEN seen
    ELSE LET a == Head(artists)
             next == IF "id" \in DOMAIN a /\ a.id \notin Range(seen)
                     THEN Append(seen, a.id) ELSE seen
         IN ArtistIdsOf(Tail(artists), next)

RECURSIVE RecentArtists(_, _)
RecentArtists(played, seen) ==
    IF played = <<>> THEN seen
    ELSE RecentArtists(Tail(played),
                       ArtistIdsOf(Get(Head(played), "artists", <<>>), seen))

\* [track["id"] for track in recently_played[:5] if "id" in track]
RecentTrackIds(played) ==
    LET first == Take(played, 5)
        with_id == SelectSeq(first, LAMBDA t : "id" \in DOMAIN t)
    IN [i \in 1..Len(with_id) |-> with_id[i].id]

\* the possible (seed_tracks, seed_artists) of lines 81-102
HistorySeeds(recently_played) ==
    IF ~Truthy(recently_played)
    THEN {[tracks |-> <<>>, artists |-> <<>>]}
    ELSE LET ids == RecentTrackIds(recently_played[1])
             artists == RecentArtists(Take(recently_played[1], 10), <<>>)
         IN {[tracks |-> t, artists |-> a] :
                t \in Samples(ids, Min2(2, Len(ids))),
                a \in Samples(artists, Min2(2, Len(artists)))}

\* the genre seeds of lines 105-120, given the outcome of
\* spotify.get_available_genres(): a response dict, or an error (raised, or
\* not a dict), which the except clause swallows
\* variant: the genre budget forgets the track seeds
remaining_forgets_tracks(seed_artists, seed_tracks) ==
    5 - Len(seed_artists)

RemainingSeeds(seed_artists, seed_tracks) ==
    5 - Len(seed_artists) - Len(seed_tracks)

GenreSeeds(top_genres, lookup, seed_artists, seed_tracks) ==
    IF ~Truthy(top_genres) \/ "error" \in DOMAIN lookup THEN <<>>
    ELSE LET available_genres == Get(lookup, "genres", <<>>)
             valid_genres == SelectSeq(top_genres[1],
                                 LAMBDA g : g \in Range(available_genres))
             remaining_seeds == RemainingSeeds(seed_artists, seed_tracks)
         IN IF remaining_seeds > 0 /\ valid_genres # <<>>
            THEN Take(valid_genres, remaining_seeds)
            ELSE <<>>

\* lines 122-125: at least one seed
EnsureSeeds(seed) ==
    IF seed.artists = <<>> /\ seed.genres = <<>> /\ seed.tracks = <<>>
    THEN [seed EXCEPT !.genres = <<"pop", "rock">>]
    ELSE seed

BuildSeedSet(history, top_genres, lookup) ==
    EnsureSeeds([artists |-> history.artists,
                 tracks  |-> history.tracks,
                 genres  |-> GenreSeeds(top_genres, lookup,
                                        history.artists, history.tracks)])

(* ------------- recommendation parameters (lines 127-145) -------------- *)
\* variant: the band without its clamps
recommendation_params_unclamped(mood_params) ==
    [target |-> mood_params,
     min    |-> [f \in DOMAIN mood_params |->
                    IF f # "tempo" THEN mood_params[f] - 200
                    ELSE mood_params[f] - 20],
     max    |-> [f \in DOMAIN mood_params |->
                    IF f # "tempo" THEN mood_params[f] + 200
                    ELSE mood_params[f] + 20]]

\* recommendation_params, with the key "target_<f>" written target[f], and
\* "min_<f>", "max_<f>" likewise.  Every value must be a number.
RecommendationParams(mood_params) ==
    [target |-> mood_params,
     min    |-> [f \in DOMAIN mood_params |->
                    IF f # "tempo" THEN Max2(0, mood_params[f] - 200)
                    ELSE Max2(40, mood_params[f] - 20)],
     max    |-> [f \in DOMAIN mood_params |->
                    IF f # "tempo" THEN Min2(1000, mood_params[f] + 200)
                    ELSE Min2(200, mood_params[f] + 20)]]

(* ---------- SpotifyClient.get_recommendations (spotify_api.py) -------- *)
\* the request parameters; a seed list is sent only when it is not empty
RecommendationRequest(seed_artists, seed_genres, seed_tracks, lim, features) ==
    LET p0 == [limit |-> Min2(lim, 100), audio_features |-> features]
        p1 == IF seed_artists # <<>>
              THEN Put(p0, "seed_artists", Take(seed_artists, 5)) ELSE p0
        p2 == IF seed_genres # <<>>
              THEN Put(p1, "seed_genres", Take(seed_genres, 5)) ELSE p1
    IN IF seed_tracks # <<>>
       THEN Put(p2, "seed_tracks", Take(seed_tracks, 5)) ELSE p2

\* "At least one seed type (artists, genres, tracks) is required"
NoSeedType(seed_artists, seed_genres, seed_tracks) ==
    seed_artists = <<>> /\ seed_genres = <<>> /\ seed_tracks = <<>>

(* ------------------------- the catalog -------------------------------- *)
\* The tracks the catalog can return, and the audio features it has for
\* them.  Of a track the model keeps id, artists and popularity; uri, name,
\* album, preview_url, explicit and duration_ms are copied by lines 165-175
\* and read by nothing after.
CatalogTracks == <<
    [id |-> "t1", artists |-> <<[name |-> "A"]>>, popularity |-> 80],
    [id |-> "t2", artists |-> <<[name |-> "A"], [name |-> "B"]>>,
     popularity |-> 40],
    [id |-> "t3", artists |-> <<[name |-> "B"]>>, popularity |-> 60],
    [id |-> "t4", artists |-> <<>>, popularity |-> 60] >>

CatalogFeatures == [
    t1 |-> [id |-> "t1", energy |-> 700, valence |-> 800,
            danceability |-> 700, tempo |-> 120, mode |-> 1000,
            instrumentalness |-> 200],
    t2 |-> [id |-> "t2", energy |-> 300, valence |-> 600,
            danceability |-> 400, tempo |-> 80, instrumentalness |-> 500,
            acousticness |-> 600],
    t3 |-> [id |-> "t3", energy |-> 500, valence |-> 500,
            danceability |-> 500, tempo |-> 100, mode |-> 0,
            instrumentalness |-> 300],
    t4 |-> [id |-> "t4", energy |-> 500, valence |-> 500,
            danceability |-> 500, tempo |-> 100, mode |-> 0,
            instrumentalness |-> 300]]

\* lines 163-175
ExtractTracks(recommended_tracks) ==
    [i \in 1..Len(recommended_tracks) |->
        LET track == recommended_tracks[i] IN
        [id         |-> track.id,
         artists    |-> [j \in 1..Len(track.artists) |-> track.artists[j].name],
         popularity |-> track.popularity]]

(* ----------------------- score_tracks_for_mood ------------------------ *)
\* feature_weights, in tenths
feature_weights == [
    energy |-> 10, valence |-> 10, danceability |-> 7,
    instrumentalness |-> 5, acousticness |-> 3, tempo |-> 3, mode |-> 2,
    popularity |-> 5]

Abs(x) == IF x < 0 THEN -x ELSE x

RECURSIVE SumOver(_, _)
\* the sum of f[x] for x in the set S
SumOver(f, S) ==
    IF S = {} THEN 0
    ELSE LET x == CHOOSE y \in S : TRUE IN f[x] + SumOver(f, S \ {x})

\* feature_score, in thousandths
FeatureScore(feature, actual, target) ==
    IF feature = "tempo"
    THEN 1000 - Min2(1000, Abs(actual - target) * 20)
    ELSE 1000 - Min2(1000, Abs(actual - target))

\* A score is the exact fraction <<numerator, denominator>>, in thousandths,
\* of the float the code computes: the weighted sum divided by
\* sum(feature_weights.values()) * feature_count / len(feature_weights),
\* which is 4.5 * feature_count / 8.
ZeroScore == <<0, 1>>

TrackScore(track, features, mood_params) ==
    LET scored == {f \in DOMAIN mood_params :
                      f \in DOMAIN features /\ f \in DOMAIN feature_weights}
        weighted == [f \in scored |->
                        FeatureScore(f, features[f], mood_params[f])
                            * feature_weights[f]]
        has_popularity == "popularity" \in DOMAIN track
        score == SumOver(weighted, scored)
                 + (IF has_popularity
                    THEN track.popularity * 10 * feature_weights.popularity
                    ELSE 0)
        feature_count == Cardinality(scored)
                         + (IF has_popularity THEN 1 ELSE 0)
    IN IF feature_count > 0
       THEN <<score * Cardinality(DOMAIN feature_weights),
              SumOver(feature_weights, DOMAIN feature_weights)
                  * feature_count>>
       ELSE ZeroScore

\* a >= b for two scores
ScoreGE(a, b) == a[1] * b[2] >= b[1] * a[2]

\* The outcome of the audio-feature lookup (lines 229-252): an error (the
\* call raised, or returned None), or the features of the ids the catalog
\* knows among those asked for.  FeaturesById is audio_features.
FeaturesById(track_ids, known) ==
    [id \in Range(track_ids) \cap known |-> CatalogFeatures[id]]

\* score_tracks_for_mood(spotify, tracks, mood_params): the list of
\* (score, track), given the outcome of the lookup
score_tracks_for_mood(track_list, mood_params, lookup) ==
    IF track_list = <<>> THEN <<>>
    ELSE IF "error" \in DOMAIN lookup
    THEN [i \in 1..Len(track_list) |->
             [score |-> ZeroScore, track |-> track_list[i]]]
    ELSE LET track_ids == [i \in 1..Len(track_list) |-> track_list[i].id]
             audio_features == FeaturesById(track_ids, lookup.known)
             kept == SelectSeq(track_list,
                         LAMBDA t : t.id \in DOMAIN audio_features)
         IN [i \in 1..Len(kept) |->
                [score |-> TrackScore(kept[i], audio_features[kept[i].id],
                                      mood_params),
                 track |-> kept[i]]]

(* ----------------- selection (lines 180-181) -------------------------- *)
\* sorted(scored, key=score, reverse=True): stable, so equal scores keep
\* their order
RECURSIVE SortedByScoreDesc(_)
SortedByScoreDesc(scored) ==
    IF scored = <<>> THEN <<>>
    ELSE LET n == Len(scored)
             x == scored[n]
             before == SortedByScoreDesc(SubSeq(scored, 1, n - 1))
             k == Cardinality({i \in 1..Len(before) :
                                  ScoreGE(before[i].score, x.score)})
         IN SubSeq(before, 1, k) \o <<x>> \o SubSeq(before, k + 1, Len(before))

\* variant: the scored list is cut to the limit without sorting it
final_tracks_unsorted(scored, lim) ==
    Take([i \in 1..Len(scored) |-> scored[i].track], lim)

FinalTracks(scored, lim) ==
    LET ordered == SortedByScoreDesc(scored)
    IN Take([i \in 1..Len(ordered) |-> ordered[i].track], lim)

\* lines 184-195 ('description' left out)
PlaylistResult(final_tracks, mood_params, seed) ==
    [name        |-> "Mood-based Recommendations",
     tracks      |-> final_tracks,
     track_count |-> Len(final_tracks),
     mood_params |-> mood_params,
     seeds       |-> seed]

\* lines 199-207
ErrorPlaylist(msg) ==
    [name        |-> "Error generating recommendations",
     tracks      |-> <<>>,
     track_count |-> 0,
     error       |-> msg]

(* ------------------------------ inputs -------------------------------- *)
MaxLimit == 2
MaxResponse == 3

\* mood_params arguments, by name: two entries of MOOD_AUDIO_FEATURES, and
\* the music_params of an EmotionDetector result, whose 'tempo' is a label
\* ('medium'), not a number
MoodInputs == {"happy", "relaxed", "detector", "caller"}
\* a dict the caller built, with values near the ends of the valid ranges
CallerParams == [energy |-> 950, valence |-> 100, tempo |-> 190]
MoodParamsOf(mood) ==
    IF mood = "detector" THEN EMOTION_MAP["neutral"]
    ELSE IF mood = "caller" THEN CallerParams
    ELSE MOOD_AUDIO_FEATURES[mood]
\* every value of the mood_params is a number
NumericParams(mood) == mood # "detector"

PlayedTracks == <<
    [id |-> "r1", artists |-> <<[id |-> "a1", name |-> "A"]>>],
    [id |-> "r2", artists |-> <<[id |-> "a1", name |-> "A"],
                                 [id |-> "a2", name |-> "B"]>>],
    [id |-> "r3", artists |-> <<[name_only |-> "C"]>>] >>

RecentlyPlayedInputs ==
    {None, Some(<<>>), Some(<<[name |-> "no id, no artists"]>>),
     Some(PlayedTracks),
     Some(<<[id |-> "r4", artists |-> <<[id |-> "a3"]>>]>>)}

\* line 87 reads artist["name"] of an artist that has an "id": KeyError when
\* the name is missing, outside every try block
SeedBuildingRaises(recently_played) ==
    /\ Truthy(recently_played)
    /\ \E i \in 1..Min2(10, Len(recently_played[1])) :
          LET track == recently_played[1][i]
          IN /\ "artists" \in DOMAIN track
             /\ \E j \in 1..Len(track.artists) :
                   /\ "id" \in DOMAIN track.artists[j]
                   /\ "name" \notin DOMAIN track.artists[j]

TopGenresInputs ==
    {None, Some(<<>>), Some(<<"polka">>),
     Some(<<"rock", "pop", "jazz", "indie", "folk", "soul">>)}

\* outcomes of spotify.get_available_genres()
GenreLookups ==
    {[error |-> "lookup failed"],
     [status |-> "no genres key"],
     [genres |-> <<>>],
     [genres |-> <<"folk", "indie", "jazz", "pop", "rock", "soul">>]}

NotCalled == [not_called |-> TRUE]

InitPlaylist ==
    /\ gp_pc = "idle"
    /\ gp_args = Pending
    /\ genre_lookup = NotCalled
    /\ seeds = Pending
    /\ recommendation_params = Pending
    /\ request = Pending
    /\ tracks = <<>>
    /\ feature_lookup = NotCalled
    /\ scored_tracks = <<>>
    /\ playlist = Pending

(* ------------- generate_playlist_based_on_mood, step by step ---------- *)
\* lines 75-125: the seeds, with the random choices and the outcome of the
\* genre lookup (made only when top_genres is not empty)
BuildSeeds ==
    /\ gp_pc = "idle"
    /\ \E mood \in MoodInputs, lim \in 1..MaxLimit,
          played \in RecentlyPlayedInputs, genres \in TopGenresInputs :
         /\ ~SeedBuildingRaises(played)
         /\ \E lookup \in (IF Truthy(genres) THEN GenreLookups ELSE {NotCalled}),
               history \in HistorySeeds(played) :
               /\ gp_args' = [mood            |-> mood,
                              mood_params     |-> MoodParamsOf(mood),
                              top_genres      |-> genres,
                              recently_played |-> played,
                              limit           |-> lim]
               /\ genre_lookup' = lookup
               /\ seeds' = BuildSeedSet(history, genres, lookup)
    /\ gp_pc' = "seeded"
    /\ UNCHANGED <<recommendation_params, request, tracks, feature_lookup,
                   scored_tracks, playlist>>
    /\ UNCHANGED other_than_playlist

\* lines 81-90 with a recently played artist that has no name: the call
\* raises KeyError
BuildSeedsRaises ==
    /\ gp_pc = "idle"
    /\ \E mood \in MoodInputs, lim \in 1..MaxLimit,
          played \in RecentlyPlayedInputs, genres \in TopGenresInputs :
         /\ SeedBuildingRaises(played)
         /\ gp_args' = [mood            |-> mood,
                        mood_params     |-> MoodParamsOf(mood),
                        top_genres      |-> genres,
                        recently_played |-> played,
                        limit           |-> lim]
    /\ gp_pc' = "raised"
    /\ UNCHANGED <<genre_lookup, seeds, recommendation_params, request,
                   tracks, feature_lookup, scored_tracks, playlist>>
    /\ UNCHANGED other_than_playlist

\* lines 127-145 with numeric mood parameters
BuildParams ==
    /\ gp_pc = "seeded"
    /\ NumericParams(gp_args.mood)
    /\ recommendation_params' = RecommendationParams(gp_args.mood_params)
    /\ gp_pc' = "ready"
    /\ UNCHANGED <<gp_args, genre_lookup, seeds, request, tracks,
                   feature_lookup, scored_tracks, playlist>>
    /\ UNCHANGED other_than_playlist

\* lines 127-145 with a mood parameter that is not a number: `value - 20`
\* raises TypeError outside every try block, so the call raises
BuildParamsRaises ==
    /\ gp_pc = "seeded"
    /\ ~NumericParams(gp_args.mood)
    /\ gp_pc' = "raised"
    /\ UNCHANGED <<gp_args, genre_lookup, seeds, recommendation_params,
                   request, tracks, feature_lookup, scored_tracks, playlist>>
    /\ UNCHANGED other_than_playlist

\* the request of lines 151-157
RequestOf(seed, args, params) ==
    RecommendationRequest(seed.artists, seed.genres, seed.tracks,
                          Min2(args.limit * 2, 100), params)

\* lines 150-175: the catalog answers with at most request.limit tracks
GetRecommendationsReturns ==
    /\ gp_pc = "ready"
    /\ ~NoSeedType(seeds.artists, seeds.genres, seeds.tracks)
    /\ request' = RequestOf(seeds, gp_args, recommendation_params)
    /\ \E n \in 0..Min2(MaxResponse, request'.limit) :
         \E recommended_tracks \in Samples(CatalogTracks, n) :
            tracks' = ExtractTracks(recommended_tracks)
    /\ gp_pc' = "fetched"
    /\ UNCHANGED <<gp_args, genre_lookup, seeds, recommendation_params,
                   feature_lookup, scored_tracks, playlist>>
    /\ UNCHANGED other_than_playlist

\* lines 150-175 and 199-207: the request raises, or a returned track lacks
\* a key that the extraction reads
GetRecommendationsFails ==
    /\ gp_pc = "ready"
    /\ request' = RequestOf(seeds, gp_args, recommendation_params)
    /\ \E msg \in {"catalog request failed", "KeyError: album"} :
         playlist' = ErrorPlaylist(msg)
    /\ gp_pc' = "done"
    /\ UNCHANGED <<gp_args, genre_lookup, seeds, recommendation_params,
                   tracks, feature_lookup, scored_tracks>>
    /\ UNCHANGED other_than_playlist

\* the outcomes of the audio-feature lookup for a track list
FeatureLookups(track_list) ==
    IF track_list = <<>> THEN {NotCalled}
    ELSE {[error |-> "lookup failed"]}
         \cup {[known |-> k] :
                  k \in SUBSET {track_list[i].id : i \in 1..Len(track_list)}}

\* lines 177-197
ScoreAndSelect ==
    /\ gp_pc = "fetched"
    /\ \E lookup \in FeatureLookups(tracks) :
         /\ feature_lookup' = lookup
         /\ scored_tracks' =
                score_tracks_for_mood(tracks, gp_args.mood_params, lookup)
    /\ playlist' = PlaylistResult(FinalTracks(scored_tracks', gp_args.limit),
                                  gp_args.mood_params, seeds)
    /\ gp_pc' = "done"
    /\ UNCHANGED <<gp_args, genre_lookup, seeds, recommendation_params,
                   request, tracks>>
    /\ UNCHANGED other_than_playlist

NextPlaylist ==
    \/ BuildSeeds
    \/ BuildSeedsRaises
    \/ BuildParams
    \/ BuildParamsRaises
    \/ GetRecommendationsReturns
    \/ GetRecommendationsFails
    \/ ScoreAndSelect

(* ------------------- properties of playlist generation ---------------- *)
SeedsBuilt == gp_pc # "idle" /\ "genres" \in DOMAIN seeds
QueryIssued == gp_pc \in {"fetched", "done"}
SeedCount(seed) == Len(seed.artists) + Len(seed.genres) + Len(seed.tracks)

\* the listening history gives no track id and no artist id
NoHistorySeed ==
    \/ ~Truthy(gp_args.recently_played)
    \/ \A i \in 1..Len(gp_args.recently_played[1]) :
          LET track == gp_args.recently_played[1][i]
          IN /\ "id" \notin DOMAIN track
             /\ \/ "artists" \notin DOMAIN track
                \/ \A j \in 1..Len(track.artists) :
                      "id" \notin DOMAIN track.artists[j]

\* no top genre is known to be available
NoGenreSeed ==
    \/ ~Truthy(gp_args.top_genres)
    \/ "genres" \notin DOMAIN genre_lookup
    \/ \A i \in 1..Len(gp_args.top_genres[1]) :
          gp_args.top_genres[1][i] \notin Range(genre_lookup.genres)

\* C11: for every top-genre list, listening history and outcome of the
\* available-genre lookup, the seed set has at least one and at most five
\* seeds across genres, artists and tracks; when nothing can be derived it
\* is the generic genre pair; and the catalog request carries exactly these
\* seeds.
C11_SeedsBetweenOneAndFive ==
    /\ SeedsBuilt =>
          /\ SeedCount(seeds) >= 1
          /\ SeedCount(seeds) <= 5
          /\ (NoHistorySeed /\ NoGenreSeed) =>
                seeds = [artists |-> <<>>, tracks |-> <<>>,
                         genres  |-> <<"pop", "rock">>]
    /\ QueryIssued =>
          /\ Get(request, "seed_artists", <<>>) = seeds.artists
          /\ Get(request, "seed_genres", <<>>) = seeds.genres
          /\ Get(request, "seed_tracks", <<>>) = seeds.tracks

\* two track seeds and two artist seeds leave room for one of six valid genres
C11_Witness ==
    /\ QueryIssued
    /\ Len(seeds.tracks) = 2 /\ Len(seeds.artists) = 2
    /\ seeds.genres = <<"rock">>
    /\ Truthy(gp_args.top_genres) /\ Len(gp_args.top_genres[1]) = 6

Generated == gp_pc = "done"
Selected == Generated /\ "error" \notin DOMAIN playlist

\* the ids the audio-feature lookup returned features for
IdsWithFeatures ==
    IF "known" \in DOMAIN feature_lookup THEN feature_lookup.known ELSE {}

\* C17 (as claimed): under every outcome of the audio-feature lookup, a
\* failed one included, every track in the result of score_tracks_for_mood
\* is a track the lookup returned audio features for.
C17_FeaturelessTracksExcluded ==
    Selected =>
        \A i \in 1..Len(scored_tracks) :
            scored_tracks[i].track.id \in IdsWithFeatures

ScoreOf(track) ==
    (CHOOSE e \in Range(scored_tracks) : e.track = track).score

\* C18: the returned tracks are in non-increasing score order and at most
\* `limit`, every returned track is a scored candidate, no scored candidate
\* left out has a strictly higher score than a returned one, and
\* track_count is the length of the returned list.
C18_BestScoresFirst ==
    Generated =>
        /\ Len(playlist.tracks) <= gp_args.limit
        /\ playlist.track_count = Len(playlist.tracks)
        /\ Selected =>
              LET kept == playlist.tracks
                  candidates == {scored_tracks[i].track :
                                    i \in 1..Len(scored_tracks)}
              IN /\ Range(kept) \subseteq candidates
                 /\ Len(kept) = Min2(gp_args.limit, Len(scored_tracks))
                 /\ \A i, j \in 1..Len(kept) :
                       i < j => ScoreGE(ScoreOf(kept[i]), ScoreOf(kept[j]))
                 /\ \A left_out \in candidates \ Range(kept) :
                       \A i \in 1..Len(kept) :
                          ScoreGE(ScoreOf(kept[i]), ScoreOf(left_out))

\* three scored candidates, the last scoring strictly higher than the
\* first, cut to two
C18_Witness ==
    /\ Selected
    /\ Len(scored_tracks) = 3 /\ Len(playlist.tracks) = 2
    /\ ~ScoreGE(scored_tracks[1].score, scored_tracks[3].score)
    /\ playlist.tracks[1] = scored_tracks[3].track

\* C19 (as claimed): generate_playlist_based_on_mood never raises to its
\* caller, and a result that reports a failure carries the message in
\* 'error' with no tracks and track_count 0.
C19_NeverRaises ==
    /\ gp_pc # "raised"
    /\ (Generated /\ ~Selected) =>
          /\ playlist.tracks = <<>>
          /\ playlist.track_count = 0

(* ====================================================================== *)
(* List functions of playlist_logic.py                                    *)
(* ====================================================================== *)
MaxMerge == 2
MaxTracks == 3
MaxPerArtist == 2

\* all sequences over S of length at most n
SeqsUpTo(S, n) == UNION {[1..k -> S] : k \in 0..n}

Ids(track_list) == {track_list[i].id : i \in 1..Len(track_list)}

(* ------------- create_mood_transition_playlist (lines 390-466) -------- *)
\* variant: the instance seen last is the one kept
RECURSIVE unique_keeps_last(_)
unique_keeps_last(all_tracks) ==
    IF all_tracks = <<>> THEN <<>>
    ELSE LET track == Head(all_tracks)
             rest == unique_keeps_last(Tail(all_tracks))
         IN IF track.id \in Ids(Tail(all_tracks)) THEN rest
            ELSE <<track>> \o rest

\* lines 437-443: unique_tracks, with the ids already seen
RECURSIVE UniqueFrom(_, _, _)
UniqueFrom(all_tracks, unique_tracks, track_ids) ==
    IF all_tracks = <<>> THEN unique_tracks
    ELSE LET track == Head(all_tracks)
         IN IF track.id \notin track_ids
            THEN UniqueFrom(Tail(all_tracks), Append(unique_tracks, track),
                            track_ids \cup {track.id})
            ELSE UniqueFrom(Tail(all_tracks), unique_tracks, track_ids)

UniqueTracks(all_tracks) == UniqueFrom(all_tracks, <<>>, {})

(* ------------------ add_transition_logic (lines 340-388) -------------- *)
\* lines 367-376: the sum of |track[f] - value| over the features of the
\* mood that the track carries, in tenths: the 0-1 features of the moods and
\* of the tracks given to this function are multiples of 0.1, and a tempo is
\* in whole BPM
DistanceTo(track, params) ==
    LET diff == [f \in DOMAIN params \cap DOMAIN track |->
                    IF f = "tempo" THEN Abs(track[f] - params[f]) * 10
                    ELSE Abs(track[f] - params[f]) \div 100]
    IN SumOver(diff, DOMAIN diff)

\* lines 378-382: position, as the fraction <<numerator, denominator>>
Position(track, mood_params, target_mood_params) ==
    LET start_distance == DistanceTo(track, mood_params)
        target_distance == DistanceTo(track, target_mood_params)
    IN IF start_distance + target_distance > 0
       THEN <<target_distance, start_distance + target_distance>>
       ELSE <<1, 2>>

\* sorted(keyed, key=lambda x: x[0]): ascending and stable
RECURSIVE SortedByKeyAsc(_)
SortedByKeyAsc(keyed) ==
    IF keyed = <<>> THEN <<>>
    ELSE LET n == Len(keyed)
             x == keyed[n]
             before == SortedByKeyAsc(SubSeq(keyed, 1, n - 1))
             k == Cardinality({i \in 1..Len(before) :
                                  ScoreGE(x.key, before[i].key)})
         IN SubSeq(before, 1, k) \o <<x>> \o SubSeq(before, k + 1, Len(before))

\* target_mood_params is None or Some(params)
add_transition_logic(track_list, mood_params, target_mood_params) ==
    IF Len(track_list) <= 1 THEN track_list
    ELSE LET keyed ==
                 IF ~Truthy(target_mood_params)
                 THEN [i \in 1..Len(track_list) |->
                          [key   |-> <<Get(track_list[i], "energy", 500)
                                       + Get(track_list[i], "valence", 500), 1>>,
                           track |-> track_list[i]]]
                 ELSE [i \in 1..Len(track_list) |->
                          [key   |-> Position(track_list[i], mood_params,
                                              target_mood_params[1]),
                           track |-> track_list[i]]]
             ordered == SortedByKeyAsc(keyed)
         IN [i \in 1..Len(ordered) |-> ordered[i].track]

\* an argument that is a str, and one that is a dict
Str(name) == [str |-> name]
Dict(params) == [dict |-> params]
IsStr(value) == "str" \in DOMAIN value
Raises(exception) == [raised |-> exception]

\* str.capitalize on the mood names
Capitalize(name) ==
    CASE name = "relaxed"   -> "Relaxed"
      [] name = "energetic" -> "Energetic"
      [] name = "happy"     -> "Happy"
      [] name = "sad"       -> "Sad"
      [] OTHER              -> name

\* lines 405-413: the table entry of a known mood name, else the argument
\* itself (here: the dict)
TransitionParams(mood) ==
    IF IsStr(mood) THEN MOOD_AUDIO_FEATURES[mood.str] ELSE mood.dict

\* lines 405-466, given the two results of generate_playlist_based_on_mood,
\* for mood names of MOOD_AUDIO_FEATURES and for dicts.  Line 453 calls
\* start_mood.capitalize() and target_mood.capitalize(): a dict has no
\* such method, and the AttributeError is not caught.
create_mood_transition_playlist(start_mood, target_mood, start_playlist, target_playlist) ==
    LET start_params == TransitionParams(start_mood)
        target_params == TransitionParams(target_mood)
        all_tracks == start_playlist.tracks \o target_playlist.tracks
        unique_tracks == UniqueTracks(all_tracks)
        ordered_tracks == add_transition_logic(unique_tracks, start_params,
                                               Some(target_params))
    IN IF ~IsStr(start_mood) \/ ~IsStr(target_mood)
       THEN Raises("AttributeError")
       ELSE [name          |-> "Transition: " \o Capitalize(start_mood.str)
                               \o " to " \o Capitalize(target_mood.str),
             tracks        |-> ordered_tracks,
             track_count   |-> Len(ordered_tracks),
             start_mood    |-> start_mood,
             target_mood   |-> target_mood,
             start_params  |-> start_params,
             target_params |-> target_params]

(* -------------------- diversify_playlist (lines 311-338) -------------- *)
\* line 331
PrimaryArtist(track) ==
    IF "artists" \in DOMAIN track /\ track.artists # <<>>
    THEN track.artists[1] ELSE "Unknown"

\* lines 326-338: artist_counts is a Counter (a missing key counts 0)
RECURSIVE DiversifyFrom(_, _, _, _)
DiversifyFrom(track_list, max_tracks_per_artist, artist_counts, filtered_tracks) ==
    IF track_list = <<>> THEN filtered_tracks
    ELSE LET track == Head(track_list)
             primary_artist == PrimaryArtist(track)
             count == Get(artist_counts, primary_artist, 0)
         IN IF count < max_tracks_per_artist
            THEN DiversifyFrom(Tail(track_list), max_tracks_per_artist,
                               Put(artist_counts, primary_artist, count + 1),
                               Append(filtered_tracks, track))
            ELSE DiversifyFrom(Tail(track_list), max_tracks_per_artist,
                               artist_counts, filtered_tracks)

\* variant: one track more per artist
diversify_one_more(track_list, max_tracks_per_artist) ==
    DiversifyFrom(track_list, max_tracks_per_artist + 1, <<>>, <<>>)

diversify_playlist(track_list, max_tracks_per_artist) ==
    DiversifyFrom(track_list, max_tracks_per_artist, <<>>, <<>>)

(* ---------------- adapt_playlist_to_context (lines 468-564) ----------- *)
\* context_adaptations (lines 484-520) for an intensity given in tenths:
\* the min_ and max_ entries, 0-1 features in thousandths, tempo in BPM,
\* loudness in dB
ContextAdaptations(intensity) == [
    workout |-> [min |-> [energy |-> 60 * intensity, tempo |-> 100],
                 max |-> [instrumentalness |-> 400]],
    study   |-> [min |-> [instrumentalness |-> 30 * intensity],
                 max |-> [energy |-> 600, speechiness |-> 30 * intensity]],
    relax   |-> [min |-> [acousticness |-> 30 * intensity],
                 max |-> [energy |-> 50 * intensity, tempo |-> 100]],
    focus   |-> [min |-> [instrumentalness |-> 30 * intensity],
                 max |-> [speechiness |-> 30 * intensity]],
    party   |-> [min |-> [danceability |-> 60 * intensity,
                          energy |-> 60 * intensity],
                 max |-> <<>>],
    sleep   |-> [min |-> [instrumentalness |-> 50 * intensity],
                 max |-> [energy |-> 40 * intensity, tempo |-> 80,
                          loudness |-> -10]] ]

\* str.lower on the context labels of the model
Lower(context) ==
    CASE context = "WORKOUT" -> "workout"
      [] context = "Relax"   -> "relax"
      [] OTHER               -> context

\* line 523: the entry of the lowered label, or no constraint at all
AdaptationOf(context, intensity) ==
    IF Lower(context) \in DOMAIN ContextAdaptations(intensity)
    THEN ContextAdaptations(intensity)[Lower(context)]
    ELSE [min |-> <<>>, max |-> <<>>]

\* the 'sort_by' key of a track, in thousandths
SortKey(context, track) ==
    LET c == Lower(context)
        F(f) == Get(track, f, 0)
    IN CASE c = "workout" -> F("energy") * 2 + F("tempo") * 5
         [] c = "study"   -> F("valence")
         [] c = "relax"   -> 0 - F("energy")
         [] c = "focus"   -> F("energy")
         [] c = "party"   -> F("danceability") + F("popularity") * 10
         [] c = "sleep"   -> 0 - F("energy")
         [] OTHER         -> F("energy") + F("valence")

\* variant: only the min_ bounds are tested
matches_min_only(track, adaptation) ==
    /\ DOMAIN track \cap {"energy", "tempo", "danceability"} # {}
    /\ \A f \in DOMAIN adaptation.min \cap DOMAIN track :
          ~(track[f] < adaptation.min[f])

\* lines 529-551: the track carries audio features and meets every bound
\* on a feature it carries
Matches(track, adaptation) ==
    /\ DOMAIN track \cap {"energy", "tempo", "danceability"} # {}
    /\ \A f \in DOMAIN adaptation.min \cap DOMAIN track :
          ~(track[f] < adaptation.min[f])
    /\ \A f \in DOMAIN adaptation.max \cap DOMAIN track :
          ~(track[f] > adaptation.max[f])

\* variant: nothing is restored after the filter
restore_nothing(track_list, filtered_tracks) == filtered_tracks

\* lines 553-558: `len(filtered) < max(3, len(tracks) * 0.3)` compared in
\* tenths
Restored(track_list, filtered_tracks) ==
    IF 10 * Len(filtered_tracks) < Max2(30, 3 * Len(track_list))
    THEN LET remaining == SelectSeq(track_list,
                              LAMBDA t : t \notin Range(filtered_tracks))
         IN filtered_tracks
            \o Take(remaining, Max2(3, Len(track_list) \div 3))
    ELSE filtered_tracks

adapt_playlist_to_context(track_list, context, intensity) ==
    IF track_list = <<>> THEN <<>>
    ELSE LET adaptation == AdaptationOf(context, intensity)
             filtered_tracks == SelectSeq(track_list,
                                    LAMBDA t : Matches(t, adaptation))
             restored == Restored(track_list, filtered_tracks)
             ordered == SortedByScoreDesc(
                            [i \in 1..Len(restored) |->
                                [score |-> <<SortKey(context, restored[i]), 1>>,
                                 track |-> restored[i]]])
         IN [i \in 1..Len(ordered) |-> ordered[i].track]

(* ---------------------- inputs of the list functions ------------------ *)
\* tracks as generate_playlist_based_on_mood returns them; "t1" also as a
\* second instance whose popularity differs
GeneratedTracks ==
    Range(ExtractTracks(CatalogTracks))
    \cup {[id |-> "t1", artists |-> <<"A">>, popularity |-> 81]}

\* tracks that carry audio features: one at the 'relaxed' target, one at
\* the 'energetic' target, one between them, and one without features
TransitionTracks ==
    {Put(MOOD_AUDIO_FEATURES["relaxed"], "id", "at-relaxed"),
     Put(MOOD_AUDIO_FEATURES["energetic"], "id", "at-energetic"),
     [id |-> "between", energy |-> 600, valence |-> 600, tempo |-> 100],
     [id |-> "bare", popularity |-> 50]}

Lively ==
    [id |-> "x1", energy |-> 900, tempo |-> 140, danceability |-> 800,
     valence |-> 700, instrumentalness |-> 100, speechiness |-> 100,
     acousticness |-> 100, loudness |-> -5, popularity |-> 70]
Calm ==
    [id |-> "x2", energy |-> 200, tempo |-> 70, danceability |-> 300,
     valence |-> 400, instrumentalness |-> 700, speechiness |-> 50,
     acousticness |-> 800, loudness |-> -15, popularity |-> 30]
Bare == [id |-> "x3", artists |-> <<"A">>, popularity |-> 60]

Repeat(track, n) == [i \in 1..n |-> track]

\* lists long enough for len * 0.3 and len // 3 to exceed 3
LongInputs ==
    {<<Lively>> \o Repeat(Bare, 12),
     Repeat(Lively, 4) \o Repeat(Calm, 9),
     Repeat(Calm, 3) \o Repeat(Lively, 10),
     Repeat(Bare, 13)}

Contexts == {"workout", "study", "relax", "focus", "party", "sleep",
             "WORKOUT", "Relax", "commute"}
\* intensity, in tenths
Intensities == {0, 5, 10}

TransitionMoods ==
    {[mood |-> "relaxed", target |-> Some(MOOD_AUDIO_FEATURES["energetic"])],
     [mood |-> "happy",   target |-> Some(MOOD_AUDIO_FEATURES["sad"])],
     [mood |-> "relaxed", target |-> None]}

\* start_mood and target_mood of create_mood_transition_playlist: names
\* of MOOD_AUDIO_FEATURES and dicts built by the caller
TransitionArguments ==
    {<<Str("relaxed"), Str("energetic")>>,
     <<Str("happy"), Str("sad")>>,
     <<Dict(CallerParams), Str("sad")>>,
     <<Str("relaxed"), Dict(CallerParams)>>,
     <<Dict(MOOD_AUDIO_FEATURES["happy"]), Dict(CallerParams)>>}

(* ----------------------- one call of a list function ------------------ *)
InitLists ==
    /\ lf_call = Pending
    /\ lf_result = Pending

CreateMoodTransitionPlaylist ==
    /\ lf_call = Pending
    /\ \E moods \in TransitionArguments,
          start_tracks \in SeqsUpTo(GeneratedTracks, MaxMerge),
          target_tracks \in SeqsUpTo(GeneratedTracks, MaxMerge) :
         /\ lf_call' = [op |-> "create_mood_transition_playlist",
                        start_mood |-> moods[1], target_mood |-> moods[2],
                        start_tracks |-> start_tracks,
                        target_tracks |-> target_tracks]
         /\ lf_result' = create_mood_transition_playlist(
                             moods[1], moods[2],
                             [tracks |-> start_tracks],
                             [tracks |-> target_tracks])
    /\ UNCHANGED other_than_list

DiversifyPlaylist ==
    /\ lf_call = Pending
    /\ \E track_list \in SeqsUpTo(GeneratedTracks, MaxTracks),
          max_tracks_per_artist \in 0..MaxPerArtist :
         /\ lf_call' = [op |-> "diversify_playlist", tracks |-> track_list,
                        max_tracks_per_artist |-> max_tracks_per_artist]
         /\ lf_result' = diversify_playlist(track_list, max_tracks_per_artist)
    /\ UNCHANGED other_than_list

AddTransitionLogic ==
    /\ lf_call = Pending
    /\ \E track_list \in SeqsUpTo(TransitionTracks, MaxTracks),
          moods \in TransitionMoods :
         /\ lf_call' = [op |-> "add_transition_logic", tracks |-> track_list,
                        mood |-> moods.mood,
                        mood_params |-> MOOD_AUDIO_FEATURES[moods.mood],
                        target_mood_params |-> moods.target]
         /\ lf_result' = add_transition_logic(track_list,
                             MOOD_AUDIO_FEATURES[moods.mood], moods.target)
    /\ UNCHANGED other_than_list

AdaptPlaylistToContext ==
    /\ lf_call = Pending
    /\ \E track_list \in SeqsUpTo({Lively, Calm, Bare}, MaxTracks)
                         \cup LongInputs,
          context \in Contexts, intensity \in Intensities :
         /\ lf_call' = [op |-> "adapt_playlist_to_context",
                        tracks |-> track_list, context |-> context,
                        intensity |-> intensity]
         /\ lf_result' = adapt_playlist_to_context(track_list, context,
                                                   intensity)
    /\ UNCHANGED other_than_list

NextLists ==
    \/ CreateMoodTransitionPlaylist
    \/ DiversifyPlaylist
    \/ AddTransitionLogic
    \/ AdaptPlaylistToContext

(* -------------------- properties of the list functions ---------------- *)
Called(op) == "op" \in DOMAIN lf_call /\ lf_call.op = op

\* the index of the first track of the list that has the id
FirstIndex(track_list, id) ==
    CHOOSE i \in 1..Len(track_list) :
        /\ track_list[i].id = id
        /\ \A j \in 1..(i - 1) : track_list[j].id # id

\* C13: the merged list of create_mood_transition_playlist holds every track
\* id of the two candidate lists exactly once, each entry is the first
\* instance seen with its id, and the entries are in the order of their
\* first occurrences; track_count is its length.
C13_MergeKeepsFirstOccurrences ==
    (Called("create_mood_transition_playlist")
     /\ "tracks" \in DOMAIN lf_result) =>
        LET all_tracks == lf_call.start_tracks \o lf_call.target_tracks
            merged == lf_result.tracks
        IN /\ Ids(merged) = Ids(all_tracks)
           /\ \A i, j \in 1..Len(merged) :
                 i # j => merged[i].id # merged[j].id
           /\ \A i \in 1..Len(merged) :
                 merged[i] = all_tracks[FirstIndex(all_tracks, merged[i].id)]
           /\ \A i, j \in 1..Len(merged) :
                 i < j => FirstIndex(all_tracks, merged[i].id)
                          < FirstIndex(all_tracks, merged[j].id)
           /\ lf_result.track_count = Len(merged)

\* the target list repeats an id of the start list with another instance,
\* after a track the start list does not have
C13_Witness ==
    /\ Called("create_mood_transition_playlist")
    /\ "tracks" \in DOMAIN lf_result
    /\ Len(lf_call.start_tracks) = 2 /\ Len(lf_call.target_tracks) = 2
    /\ lf_call.target_tracks[1].id \notin Ids(lf_call.start_tracks)
    /\ lf_call.target_tracks[2].id = lf_call.start_tracks[1].id
    /\ lf_call.target_tracks[2] # lf_call.start_tracks[1]
    /\ Len(lf_result.tracks) = 3

\* sub can be obtained from full by deleting entries
RECURSIVE IsSubsequence(_, _)
IsSubsequence(sub, full) ==
    IF sub = <<>> THEN TRUE
    ELSE IF full = <<>> THEN FALSE
    ELSE IF Head(sub) = Head(full)
         THEN IsSubsequence(Tail(sub), Tail(full))
         ELSE IsSubsequence(sub, Tail(full))

TimesPrimary(track_list, artist) ==
    Cardinality({i \in 1..Len(track_list) :
                    PrimaryArtist(track_list[i]) = artist})

\* reading input and output side by side: input[i] is output[j] unless k
\* tracks of its primary artist are among output[1..j-1]
RECURSIVE DropsJustified(_, _, _, _, _)
DropsJustified(input, output, k, i, j) ==
    IF i > Len(input) THEN j = Len(output) + 1
    ELSE IF TimesPrimary(SubSeq(output, 1, j - 1), PrimaryArtist(input[i])) >= k
         THEN DropsJustified(input, output, k, i + 1, j)
         ELSE /\ j <= Len(output)
              /\ output[j] = input[i]
              /\ DropsJustified(input, output, k, i + 1, j + 1)

\* C14: the output of diversify_playlist has no primary artist more than
\* max_tracks_per_artist times, is an order-preserving subsequence of the
\* input, and lacks a track of the input only where that many earlier kept
\* tracks have the same primary artist.
C14_AtMostKPerArtist ==
    Called("diversify_playlist") =>
        LET k == lf_call.max_tracks_per_artist
        IN /\ \A i \in 1..Len(lf_result) :
                 TimesPrimary(lf_result, PrimaryArtist(lf_result[i])) <= k
           /\ IsSubsequence(lf_result, lf_call.tracks)
           /\ DropsJustified(lf_call.tracks, lf_result, k, 1, 1)

\* three tracks of one primary artist, limit 2
C14_Witness ==
    /\ Called("diversify_playlist")
    /\ lf_call.max_tracks_per_artist = 2
    /\ Len(lf_call.tracks) = 3
    /\ TimesPrimary(lf_call.tracks, "A") = 3
    /\ Len(lf_result) = 2

\* the track carries every feature of the mood, with the mood's value
AtTarget(track, params) ==
    \A f \in DOMAIN params : f \in DOMAIN track /\ track[f] = params[f]

\* C15 (as claimed): with a transition target, a track whose features equal
\* the start target has position 0 and comes before every track whose
\* features equal the end target.
C15_StartTracksComeFirst ==
    (Called("add_transition_logic") /\ Truthy(lf_call.target_mood_params)) =>
        LET start_params == lf_call.mood_params
            end_params == lf_call.target_mood_params[1]
        IN \A i \in 1..Len(lf_result) :
              AtTarget(lf_result[i], start_params) =>
                 /\ Len(lf_result) > 1 =>
                       Position(lf_result[i], start_params, end_params)[1] = 0
                 /\ \A j \in 1..Len(lf_result) :
                       AtTarget(lf_result[j], end_params) => i < j

\* C16: for a non-empty input, adapt_playlist_to_context returns at least
\* min(3, len(input)) tracks, all of them tracks of the input.
C16_NeverFewerThanThree ==
    (Called("adapt_playlist_to_context") /\ lf_call.tracks # <<>>) =>
        /\ Len(lf_result) >= Min2(3, Len(lf_call.tracks))
        /\ Range(lf_result) \subseteq Range(lf_call.tracks)

\* thirteen tracks, none passes the filter, four are restored
C16_Witness ==
    /\ Called("adapt_playlist_to_context")
    /\ Len(lf_call.tracks) = 13
    /\ \A i \in 1..13 :
          ~Matches(lf_call.tracks[i],
                   AdaptationOf(lf_call.context, lf_call.intensity))
    /\ Len(lf_result) = 4

(* ------------- thresholds and order of adapt_playlist_to_context ------ *)
\* the track meets every min_ and max_ threshold of the context on the
\* features it carries
WithinThresholds(track, context, intensity) ==
    LET adaptation == AdaptationOf(context, intensity)
    IN /\ \A f \in DOMAIN adaptation.min \cap DOMAIN track :
             track[f] >= adaptation.min[f]
       /\ \A f \in DOMAIN adaptation.max \cap DOMAIN track :
             track[f] <= adaptation.max[f]

CarriesFeatures(track) ==
    DOMAIN track \cap {"energy", "tempo", "danceability"} # {}

\* the tracks of the input that pass the filter of lines 527-551
Passing(track_list, context, intensity) ==
    SelectSeq(track_list,
              LAMBDA t : CarriesFeatures(t)
                         /\ WithinThresholds(t, context, intensity))

\* too few tracks pass: len(filtered_tracks) < max(3, len(tracks) * 0.3)
TooFewPass(track_list, context, intensity) ==
    10 * Len(Passing(track_list, context, intensity))
        < Max2(30, 3 * Len(track_list))

OrderedBySortKey(track_list, context) ==
    \A i, j \in 1..Len(track_list) :
        i < j => SortKey(context, track_list[i])
                    >= SortKey(context, track_list[j])

KnownContext(context) == Lower(context) \in DOMAIN ContextAdaptations(10)

\* C25 as stated: every track of the output meets all thresholds of the
\* context on the features it carries, and the output is in non-increasing
\* order of the context's sort key; an unknown label has no threshold and
\* the order is by energy + valence, descending.
C25_OutputWithinThresholds ==
    Called("adapt_playlist_to_context") =>
        /\ \A i \in 1..Len(lf_result) :
              WithinThresholds(lf_result[i], lf_call.context,
                               lf_call.intensity)
        /\ OrderedBySortKey(lf_result, lf_call.context)

\* C25 amended: the output is in non-increasing order of the context's
\* sort key (energy + valence for an unknown label, which has no
\* threshold).  When at least max(3, 0.3 * len(tracks)) tracks pass the
\* filter, the output is exactly the passing tracks, each carrying one of
\* energy, tempo, danceability and meeting every threshold on the features
\* it carries.  When fewer pass, the output also holds the first
\* max(3, len(tracks) // 3) tracks of the input that are not equal to a
\* passing track, whether or not they meet the thresholds.
C25_WithinThresholdsUnlessRestored ==
    Called("adapt_playlist_to_context") =>
        LET passing == Passing(lf_call.tracks, lf_call.context,
                               lf_call.intensity)
            others == SelectSeq(lf_call.tracks,
                                LAMBDA t : t \notin Range(passing))
            restore == TooFewPass(lf_call.tracks, lf_call.context,
                                  lf_call.intensity)
            k == Max2(3, Len(lf_call.tracks) \div 3)
        IN /\ OrderedBySortKey(lf_result, lf_call.context)
           /\ ~KnownContext(lf_call.context) =>
                 /\ \A t \in Range(lf_call.tracks) :
                       WithinThresholds(t, lf_call.context,
                                        lf_call.intensity)
                 /\ \A i \in 1..Len(lf_result) :
                       SortKey(lf_call.context, lf_result[i])
                          = Get(lf_result[i], "energy", 0)
                            + Get(lf_result[i], "valence", 0)
           /\ (~restore \/ lf_call.tracks = <<>>) =>
                 /\ Len(lf_result) = Len(passing)
                 /\ Range(lf_result) = Range(passing)
           /\ (restore /\ lf_call.tracks # <<>>) =>
                 /\ Len(lf_result) = Len(passing) + Min2(k, Len(others))
                 /\ Range(lf_result)
                       = Range(passing) \cup Range(Take(others, k))

\* ten lively and three calm tracks for 'relax': only the calm ones pass,
\* which is too few, and three lively ones come back above the threshold
C25_Witness ==
    /\ Called("adapt_playlist_to_context")
    /\ lf_call.context = "relax"
    /\ lf_call.intensity = 10
    /\ Len(lf_call.tracks) = 13
    /\ Len(lf_result) = 7
    /\ lf_result[7] = Lively
    /\ ~WithinThresholds(Lively, "relax", 10)
    /\ WithinThresholds(lf_result[1], "relax", 10)

(* --------- mood names and dicts in create_mood_transition_playlist ---- *)
\* C26: for start_mood and target_mood each a mood name of
\* MOOD_AUDIO_FEATURES or a parameter dict, create_mood_transition_playlist
\* does not raise and returns a playlist whose tracks have pairwise
\* distinct ids.
C26_NamesAndDictsAccepted ==
    Called("create_mood_transition_playlist") =>
        /\ "raised" \notin DOMAIN lf_result
        /\ "tracks" \in DOMAIN lf_result
        /\ \A i, j \in 1..Len(lf_result.tracks) :
              i # j => lf_result.tracks[i].id # lf_result.tracks[j].id

(* ====================================================================== *)
(* generate_playlist_recommendations, as app.py create_playlist calls it  *)
(* (lines 190-206).  playlist_logic.py does not define the function; its  *)
(* candidate acquisition is modelled from section 4.3 of the              *)
(* specification: three tiers of catalog queries, merged and              *)
(* deduplicated, and a fixed list when no tier yields a track.            *)
(* ====================================================================== *)
MaxTierTracks == 1

\* "target >= 15-20 unique tracks"
TargetCandidates == 15

\* the fixed list of well-known tracks
FallbackTracks ==
    <<[id |-> "f1"], [id |-> "f2"], [id |-> "f3"], [id |-> "f4"],
      [id |-> "f5"]>>

\* what one tier obtains: the tracks of its queries, none when they fail
TierOutcomes ==
    {[error |-> "catalog request failed", tracks |-> <<>>]}
    \cup {[tracks |-> ExtractTracks(t)] :
             t \in UNION {Samples(CatalogTracks, n) : n \in 0..MaxTierTracks}}

RECURSIVE Concat(_)
Concat(lists) ==
    IF lists = <<>> THEN <<>> ELSE Head(lists) \o Concat(Tail(lists))

\* the candidates of the tiers run so far, first occurrence of an id kept
Candidates(tiers) ==
    UniqueTracks(Concat([i \in 1..Len(tiers) |-> tiers[i].tracks]))

\* the generic genres are queried when the first two tiers fall short
AcquisitionOver(tiers) ==
    \/ Len(tiers) = 3
    \/ Len(tiers) = 2 /\ Len(Candidates(tiers)) >= TargetCandidates

\* variant: no fixed list, the merged candidates are returned as they are
recommendations_without_fallback(tiers) == Candidates(tiers)

generate_playlist_recommendations(tiers) ==
    IF Candidates(tiers) = <<>> THEN FallbackTracks ELSE Candidates(tiers)

\* app.py lines 204-206, then line 208 onwards
CreatePlaylistResponse(tracks_returned) ==
    IF tracks_returned = <<>>
    THEN [error |-> "Failed to generate playlist recommendations",
          status |-> 500]
    ELSE [proceeds |-> TRUE]

InitRecommend ==
    /\ rec_pc = "acquiring"
    /\ tier_results = <<>>
    /\ playlist_tracks = <<>>
    /\ response = Pending

AcquireTier ==
    /\ rec_pc = "acquiring"
    /\ ~AcquisitionOver(tier_results)
    /\ \E outcome \in TierOutcomes :
         tier_results' = Append(tier_results, outcome)
    /\ UNCHANGED <<rec_pc, playlist_tracks, response>>
    /\ UNCHANGED other_than_recommend

ReturnRecommendations ==
    /\ rec_pc = "acquiring"
    /\ AcquisitionOver(tier_results)
    /\ playlist_tracks' = generate_playlist_recommendations(tier_results)
    /\ rec_pc' = "returned"
    /\ UNCHANGED <<tier_results, response>>
    /\ UNCHANGED other_than_recommend

CreatePlaylist ==
    /\ rec_pc = "returned"
    /\ response' = CreatePlaylistResponse(playlist_tracks)
    /\ rec_pc' = "responded"
    /\ UNCHANGED <<tier_results, playlist_tracks>>
    /\ UNCHANGED other_than_recommend

NextRecommend ==
    \/ AcquireTier
    \/ ReturnRecommendations
    \/ CreatePlaylist

NoCandidates ==
    \A i \in 1..Len(tier_results) : tier_results[i].tracks = <<>>

Sensors == {"A", "B"}
Users == {"u", "v"}

\* round(stats['average']) of a calibration run by the sensor
MeasuredBy(sensor) == IF sensor = "A" THEN 60 ELSE 72

\* per sensor: the users whose calibration is in its sampling window, and
\* what the calibration that finished last returned
NoCalibration == [in_progress |-> {}, returned |-> None]

InitSensors ==
    /\ baseline_file = <<>>
    /\ user_baselines = [s \in Sensors |-> None]
    /\ calibration = [s \in Sensors |-> NoCalibration]

\* __init__ (line 48 and 53) with _load_user_baselines (lines 395-405): the
\* table read from the file, or {} when reading fails
NewSensor(s) ==
    /\ user_baselines[s] = None
    /\ \E loaded \in {baseline_file, <<>>} :
         user_baselines' = [user_baselines EXCEPT ![s] = Some(loaded)]
    /\ UNCHANGED <<baseline_file, calibration>>
    /\ UNCHANGED other_than_sensor

\* calibrate_resting_hr up to the sleep of line 220
StartCalibration(s, user_id) ==
    /\ user_baselines[s] # None
    /\ user_id \notin calibration[s].in_progress
    /\ calibration' = [calibration EXCEPT
                          ![s].in_progress = @ \cup {user_id}]
    /\ UNCHANGED <<baseline_file, user_baselines>>
    /\ UNCHANGED other_than_sensor

\* lines 225-246 with _save_user_baselines (lines 407-418): the sensor's
\* own table gets the entry and is dumped whole over the file; an error
\* while saving is logged and the call still reports success
CalibrationSucceeds(s, user_id) ==
    /\ user_id \in calibration[s].in_progress
    /\ LET baseline == MeasuredBy(s)
           table == Put(user_baselines[s][1], user_id, baseline)
       IN /\ user_baselines' = [user_baselines EXCEPT ![s] = Some(table)]
          /\ \E saved \in BOOLEAN :
               /\ baseline_file' = IF saved THEN table ELSE baseline_file
               /\ calibration' = [calibration EXCEPT
                     ![s] = [in_progress |-> @.in_progress \ {user_id},
                             returned    |-> Some([user_id    |-> user_id,
                                                   resting_hr |-> baseline,
                                                   success    |-> TRUE,
                                                   saved      |-> saved])]]
    /\ UNCHANGED other_than_sensor

\* lines 247-258: no valid reading in the window
CalibrationFails(s, user_id) ==
    /\ user_id \in calibration[s].in_progress
    /\ calibration' = [calibration EXCEPT
          ![s] = [in_progress |-> @.in_progress \ {user_id},
                  returned    |-> Some([user_id |-> user_id,
                                        success |-> FALSE])]]
    /\ UNCHANGED <<baseline_file, user_baselines>>
    /\ UNCHANGED other_than_sensor

NextSensors ==
    \/ \E s \in Sensors : NewSensor(s)
    \/ \E s \in Sensors, user_id \in Users : StartCalibration(s, user_id)
    \/ \E s \in Sensors, user_id \in Users : CalibrationSucceeds(s, user_id)
    \/ \E s \in Sensors, user_id \in Users : CalibrationFails(s, user_id)

\* the step is the end of a calibration of user_id by s that was saved
SavedCalibrationEnds(s, user_id) ==
    /\ user_id \in calibration[s].in_progress
    /\ user_id \notin calibration'[s].in_progress
    /\ calibration'[s].returned[1].success
    /\ calibration'[s].returned[1].saved

\* C20 (as claimed): a user the persisted table maps to a baseline is
\* mapped to a baseline after every later calibration, of any user by any
\* sensor; and the value stored for a user is the one written by the
\* calibration of that user that finished last.
C20_SavedBaselinesStay ==
    [][/\ \A user_id \in DOMAIN baseline_file :
              user_id \in DOMAIN baseline_file'
       /\ \A s \in Sensors, user_id \in Users :
              SavedCalibrationEnds(s, user_id) =>
                  baseline_file'[user_id] = calibration'[s].returned[1].resting_hr
      ]_vars

(* ====================================================================== *)
(* Dict objects.  The operators above compute with values; here a dict is *)
(* an object of a heap, named by a reference, so that copying a dict and  *)
(* writing through a second name of it differ.  The heap holds the static *)
(* tables (EmotionDetector.EMOTION_MAP, MOOD_AUDIO_FEATURES) and every    *)
(* music_params dict a call has built.                                    *)
(* ====================================================================== *)
MaxObjects == 2

EmotionRef(e) == "EMOTION_MAP." \o e
MoodRef(m) == "MOOD_AUDIO_FEATURES." \o m
EmotionRefs == {EmotionRef(e) : e \in DOMAIN EMOTION_MAP}
MoodRefs == {MoodRef(m) : m \in DOMAIN MOOD_AUDIO_FEATURES}

\* the tables as the module and __init__ build them
StaticHeap ==
    [r \in EmotionRefs \cup MoodRefs |->
        IF r \in EmotionRefs
        THEN EMOTION_MAP[CHOOSE e \in DOMAIN EMOTION_MAP : EmotionRef(e) = r]
        ELSE MOOD_AUDIO_FEATURES[CHOOSE m \in DOMAIN MOOD_AUDIO_FEATURES :
                                    MoodRef(m) = r]]

Allocated(h) == Cardinality(DOMAIN h \ DOMAIN StaticHeap)
NewRef(h) == "dict." \o ToString(Allocated(h) + 1)

\* variant: the dict itself instead of a copy of it
dict_alias(h, ref) == [heap |-> h, ref |-> ref]

\* d.copy(): a new object with the entries of d
DictCopy(h, ref) == [heap |-> Put(h, NewRef(h), h[ref]), ref |-> NewRef(h)]

\* d[key] = value
SetItem(h, ref, key, value) == [h EXCEPT ![ref] = Put(@, key, value)]

\* _calculate_music_parameters (lines 245-270) on the heap
HeapCalculate(h, emotion, hr) ==
    LET c == DictCopy(h, IF emotion \in DOMAIN EMOTION_MAP
                         THEN EmotionRef(emotion) ELSE EmotionRef("neutral"))
        params == c.ref
        h1 == SetItem(c.heap, params, "energy",
                  Min2(1000, c.heap[params].energy
                             + (hr_factor(hr) * 200) \div 1000))
        tempo == h1[params].tempo
        raw_bpm == IF tempo = "low" THEN 700 + (hr - 70) * 3
                   ELSE IF tempo = "medium" THEN 900 + (hr - 70) * 3
                   ELSE IF tempo = "medium-high" THEN 1100 + (hr - 70) * 3
                   ELSE 1300 + (hr - 70) * 3
    IN [heap |-> SetItem(h1, params, "target_bpm",
                         Min2(1800, Max2(600, raw_bpm))),
        ref  |-> params]

\* adapt_to_user_goal (lines 284-304) on the heap: the goal branches write
\* to params
HeapAdaptToUserGoal(h, music_params, goal) ==
    LET c == DictCopy(h, music_params)
    IN [heap |-> [c.heap EXCEPT ![c.ref] = GoalAdjusted(@, goal)],
        ref  |-> c.ref]

\* get_context_adjusted_params (lines 328-366) on the heap
HeapContextAdjusted(h, music_params, act, goal) ==
    LET c == DictCopy(h, music_params)
        h1 == [c.heap EXCEPT ![c.ref] = ActivityAdjusted(@, act)]
    IN HeapAdaptToUserGoal(h1, c.ref, goal)

\* inputs
HeapFaces == {"neutral", "anger", "happiness"}
HeapConfidences == {500, 900}
HeapHeartRates == {60, 110, 200}
HeapGoals == {"calm", "energize", "maintain"}
HeapActivities == {"working", "relaxing", NoLabel}
HeapMoods == {"happy", "relaxed"}

\* the music_params dicts a caller can pass on: those of detection results
\* (lines 85 and 112: entries of EMOTION_MAP themselves) and every dict a
\* call returned
EmotionDicts(h) ==
    {EmotionRef(e) : e \in HeapFaces} \cup (DOMAIN h \ DOMAIN StaticHeap)

InitHeap ==
    /\ heap = StaticHeap
    /\ heap_last = Pending

HeapCombineSensorData ==
    /\ Allocated(heap) + 1 <= MaxObjects
    /\ \E face \in HeapFaces, confidence \in HeapConfidences,
          hr \in HeapHeartRates :
         LET adjusted == _adjust_emotion_with_heart_rate(face, confidence,
                                                         Some(hr))
             r == HeapCalculate(heap, adjusted, hr)
         IN /\ heap' = r.heap
            /\ heap_last' = [op |-> "combine_sensor_data",
                             arg |-> EmotionRef(face),
                             arg_before |-> heap[EmotionRef(face)],
                             emotion |-> adjusted, heart_rate |-> hr,
                             result |-> r.ref]
    /\ UNCHANGED other_than_heap

HeapAdaptGoal ==
    /\ Allocated(heap) + 1 <= MaxObjects
    /\ \E music_params \in EmotionDicts(heap), goal \in HeapGoals :
         LET r == HeapAdaptToUserGoal(heap, music_params, goal)
         IN /\ heap' = r.heap
            /\ heap_last' = [op |-> "adapt_to_user_goal",
                             arg |-> music_params,
                             arg_before |-> heap[music_params],
                             goal |-> goal, result |-> r.ref]
    /\ UNCHANGED other_than_heap

HeapContextParams ==
    /\ Allocated(heap) + 2 <= MaxObjects
    /\ \E music_params \in EmotionDicts(heap), act \in HeapActivities,
          goal \in HeapGoals :
         LET r == HeapContextAdjusted(heap, music_params, act, goal)
         IN /\ heap' = r.heap
            /\ heap_last' = [op |-> "get_context_adjusted_params",
                             arg |-> music_params,
                             arg_before |-> heap[music_params],
                             activity |-> act, goal |-> goal,
                             result |-> r.ref]
    /\ UNCHANGED other_than_heap

\* generate_playlist_based_on_mood reads mood_params and returns the dict
\* itself under 'mood_params' (line 189); it writes to no dict it was given
HeapGeneratePlaylist ==
    /\ \E mood_params \in {MoodRef(m) : m \in HeapMoods}
                           \cup EmotionDicts(heap) :
         heap_last' = [op |-> "generate_playlist_based_on_mood",
                       arg |-> mood_params,
                       arg_before |-> heap[mood_params],
                       result |-> mood_params]
    /\ UNCHANGED heap
    /\ UNCHANGED other_than_heap

\* create_mood_transition_playlist with two mood names (lines 405-432,
\* 455-464): start_params is the table entry itself, passed to
\* generate_playlist_based_on_mood and returned under 'start_params'
HeapTransitionPlaylist ==
    /\ \E start_mood \in HeapMoods, target_mood \in HeapMoods :
         heap_last' = [op |-> "create_mood_transition_playlist",
                       arg |-> MoodRef(start_mood),
                       arg_before |-> heap[MoodRef(start_mood)],
                       target |-> MoodRef(target_mood),
                       result |-> MoodRef(start_mood)]
    /\ UNCHANGED heap
    /\ UNCHANGED other_than_heap

NextHeap ==
    \/ HeapCombineSensorData
    \/ HeapAdaptGoal
    \/ HeapContextParams
    \/ HeapGeneratePlaylist
    \/ HeapTransitionPlaylist

HeapCalled(op) == "op" \in DOMAIN heap_last /\ heap_last.op = op

\* C21: after every sequence of calls the static tables hold the values
\* they were built with, the dict passed to the last call holds what it
\* held when the call was made, and the parameters combine_sensor_data
\* returns are those the unchanged tables give for the same emotion and
\* heart rate.
C21_TablesAndArgumentsUnchanged ==
    /\ \A r \in DOMAIN StaticHeap : heap[r] = StaticHeap[r]
    /\ "arg" \in DOMAIN heap_last =>
          heap[heap_last.arg] = heap_last.arg_before
    /\ HeapCalled("combine_sensor_data") =>
          heap[heap_last.result]
              = _calculate_music_parameters(heap_last.emotion,
                                            heap_last.heart_rate)

\* a goal adjustment of a detection result's music_params, which is the
\* EMOTION_MAP entry itself, after an earlier call built another dict
C21_Witness ==
    /\ HeapCalled("adapt_to_user_goal")
    /\ heap_last.arg = EmotionRef("neutral")
    /\ heap_last.goal = "energize"
    /\ Allocated(heap) = 2
    /\ heap[heap_last.result].energy = 800

(* -------------- the heart-rate energy boost (lines 252-255) ----------- *)
\* hr_factor * 0.2, in thousandths
EnergyBoost(hr) == (hr_factor(hr) * 200) \div 1000

BaseOf(emotion) ==
    IF emotion \in DOMAIN EMOTION_MAP
    THEN EMOTION_MAP[emotion] ELSE EMOTION_MAP["neutral"]

\* C22: for every heart rate the energy boost of
\* _calculate_music_parameters is at least 0 and at most 0.2, is 0 at or
\* below 60 BPM and 0.2 at or above 160 BPM, and does not decrease when the
\* heart rate increases; the energy it returns is the base energy plus the
\* boost, capped at 1.0.
C22_EnergyBoostBounded ==
    (pc = "combined" /\ heart_rate # None) =>
        LET hr == heart_rate[1]
        IN /\ EnergyBoost(hr) >= 0
           /\ EnergyBoost(hr) <= 200
           /\ hr <= 60 => EnergyBoost(hr) = 0
           /\ hr >= 160 => EnergyBoost(hr) = 200
           /\ \A higher \in HeartRates :
                 higher >= hr => EnergyBoost(higher) >= EnergyBoost(hr)
           /\ Calculated =>
                 /\ assessment.music_params.energy <= 1000
                 /\ assessment.music_params.energy
                       = Min2(1000, BaseOf(assessment.primary_emotion).energy
                                    + EnergyBoost(hr))
                 /\ assessment.music_params.energy
                       >= BaseOf(assessment.primary_emotion).energy

\* a heart rate far above 160 with a base energy that the full boost takes
\* to 1.0
C22_Witness ==
    /\ pc = "combined"
    /\ Calculated
    /\ heart_rate = Some(400)
    /\ BaseOf(assessment.primary_emotion).energy + 200 >= 1000
    /\ assessment.music_params.energy = 1000

(* ------------- the bands sent to the catalog (lines 127-145) ---------- *)
FeatureFloor(f) == IF f = "tempo" THEN 40 ELSE 0
FeatureCeiling(f) == IF f = "tempo" THEN 200 ELSE 1000
BandWidth(f) == IF f = "tempo" THEN 20 ELSE 200

\* C23: of every feature f with value v in the request sent to the
\* catalog, the target is v, the minimum is v - 0.2 but at least 0 and the
\* maximum v + 0.2 but at most 1 (for tempo: v - 20 but at least 40, v + 20
\* but at most 200); when v is inside the feature's valid range, so is the
\* band, and the target is inside the band.
C23_BandsAroundTargets ==
    QueryIssued =>
        LET sent == request.audio_features
        IN /\ DOMAIN sent.target = DOMAIN gp_args.mood_params
           /\ \A f \in DOMAIN gp_args.mood_params :
                LET v == gp_args.mood_params[f]
                IN /\ sent.target[f] = v
                   /\ sent.min[f] = Max2(FeatureFloor(f), v - BandWidth(f))
                   /\ sent.max[f] = Min2(FeatureCeiling(f), v + BandWidth(f))
                   /\ (v >= FeatureFloor(f) /\ v <= FeatureCeiling(f)) =>
                         /\ sent.min[f] <= v
                         /\ v <= sent.max[f]
                         /\ sent.min[f] >= FeatureFloor(f)
                         /\ sent.max[f] <= FeatureCeiling(f)

\* a request in which the energy and tempo bands are cut at the top of
\* the range and the valence band at the bottom
C23_Witness ==
    /\ QueryIssued
    /\ gp_args.mood = "caller"
    /\ request.audio_features.max.energy = 1000
    /\ request.audio_features.min.valence = 0
    /\ request.audio_features.max.tempo = 200
    /\ request.audio_features.min.tempo = 170

(* ====================================================================== *)
(* The batched audio-feature lookup of score_tracks_for_mood              *)
(* (playlist_logic.py 229-252) and get_audio_features_for_tracks          *)
(* (spotify_api.py 481-490): for i in range(0, len(track_ids), 100).      *)
(* A track id is modelled by its position in track_ids.                   *)
(* ====================================================================== *)
MaxIds == 250

\* variant: slices that start one id early
batch_overlapping(ids, i) == SubSeq(ids, Max2(1, i), Min2(i + 100, Len(ids)))

\* track_ids[i:i+100], i counted from 0
Batch(ids, i) == SubSeq(ids, i + 1, Min2(i + 100, Len(ids)))

BatchCallers == {"score_tracks_for_mood", "get_audio_features_for_tracks"}

InitBatch ==
    /\ bf_pc = "idle"
    /\ bf_fn = NoLabel
    /\ bf_track_ids = <<>>
    /\ bf_i = 0
    /\ lookups = <<>>

\* the call, up to the first test of the loop
StartLookups ==
    /\ bf_pc = "idle"
    /\ \E fn \in BatchCallers, n \in 0..MaxIds :
         /\ bf_fn' = fn
         /\ bf_track_ids' = [k \in 1..n |-> k]
         /\ bf_pc' = IF n = 0 THEN "returned" ELSE "looping"
    /\ UNCHANGED <<bf_i, lookups>>
    /\ UNCHANGED other_than_batch

\* one iteration whose get_audio_features call returns
LookupReturns ==
    /\ bf_pc = "looping"
    /\ lookups' = Append(lookups, Batch(bf_track_ids, bf_i))
    /\ bf_i' = bf_i + 100
    /\ bf_pc' = IF bf_i' < Len(bf_track_ids) THEN "looping" ELSE "returned"
    /\ UNCHANGED <<bf_fn, bf_track_ids>>
    /\ UNCHANGED other_than_batch

\* one iteration whose get_audio_features call raises (or, in
\* score_tracks_for_mood, returns None, which the else branch iterates):
\* score_tracks_for_mood leaves the loop for its except block and returns
\* zero scores, get_audio_features_for_tracks lets the exception through
LookupRaises ==
    /\ bf_pc = "looping"
    /\ lookups' = Append(lookups, Batch(bf_track_ids, bf_i))
    /\ bf_pc' = IF bf_fn = "score_tracks_for_mood"
                THEN "zero_scores" ELSE "raised"
    /\ UNCHANGED <<bf_fn, bf_track_ids, bf_i>>
    /\ UNCHANGED other_than_batch

NextBatch ==
    \/ StartLookups
    \/ LookupReturns
    \/ LookupRaises

\* ceil(n / 100)
BatchesNeeded(n) == (n + 99) \div 100
LookupsOver == bf_pc \in {"returned", "zero_scores", "raised"}
\* the calls are slices of at most 100 ids, each starting where the one
\* before it ended, the first at the start of the list
ConsecutiveSlices ==
    \A c \in 1..Len(lookups) :
        /\ Len(lookups[c]) >= 1
        /\ Len(lookups[c]) <= 100
        /\ \A k \in 1..Len(lookups[c]) :
              lookups[c][k] = bf_track_ids[(c - 1) * 100 + k]
        /\ c < Len(lookups) => Len(lookups[c]) = 100

\* C24 as stated: when the lookups for n ids are over, every call carried
\* at most 100 ids, the calls were consecutive disjoint slices covering
\* every id exactly once, and there were ceil(n/100) of them.
C24_EveryIdLookedUp ==
    LookupsOver =>
        /\ ConsecutiveSlices
        /\ Len(lookups) = BatchesNeeded(Len(bf_track_ids))
        /\ Concat(lookups) = bf_track_ids

\* C24 amended: every call carries at most 100 ids and the calls are
\* consecutive disjoint slices from the start of the list; when no call
\* raised there are ceil(n/100) calls and they cover every id exactly
\* once; a call that raises is the last one, so that the ids after its
\* slice are never looked up.
C24_SlicesUntilFailure ==
    /\ ConsecutiveSlices
    /\ Len(lookups) <= BatchesNeeded(Len(bf_track_ids))
    /\ bf_pc = "returned" =>
          /\ Len(lookups) = BatchesNeeded(Len(bf_track_ids))
          /\ Concat(lookups) = bf_track_ids
    /\ bf_pc \in {"zero_scores", "raised"} =>
          /\ Len(lookups) = bf_i \div 100 + 1
          /\ Concat(lookups)
                = SubSeq(bf_track_ids, 1,
                         Min2(bf_i + 100, Len(bf_track_ids)))

\* 250 ids looked up in three calls, the last with 50 ids
C24_Witness ==
    /\ bf_pc = "returned"
    /\ Len(bf_track_ids) = 250
    /\ Len(lookups) = 3
    /\ Len(lookups[3]) = 50
    /\ lookups[3][50] = 250

(* ====================================================================== *)
(* The reading state of one HeartRateSensor (heart_rate_sensor.py):       *)
(* start_reading, stop_reading, disconnect, calibrate_resting_hr called   *)
(* from the threads of the application, and the _reading_loop threads.    *)
(* No lock protects is_reading or reading_thread; a step below is what    *)
(* one thread does between two points where another thread can run.       *)
(* ====================================================================== *)
MaxThreads == 2

ReaderCallers == {"c1", "c2"}
LoopThreads == 1..MaxThreads
Idle == [pc |-> "idle"]

\* reading_thread.is_alive(); 0 stands for None
IsAlive(t) == t # 0 /\ thread_at[t] \in {"test", "reading", "callback", "sleep"}
Unborn == {t \in LoopThreads : thread_at[t] = "unborn"}
Starting == {c \in ReaderCallers : caller[c].pc = "starting"}

InitReader ==
    /\ is_connected = FALSE
    /\ is_reading = FALSE
    /\ reading_thread = 0
    /\ callback = FALSE
    /\ thread_at = [t \in LoopThreads |-> "unborn"]
    /\ caller = [c \in ReaderCallers |-> Idle]
    /\ observed = [stopped |-> FALSE, read_after_stop |-> FALSE,
                   started_while_reading |-> FALSE,
                   only_calibrations |-> TRUE, calibrated |-> Pending]

\* the caller after its start_reading has returned
AfterStart(op) ==
    IF op = "calibrate_resting_hr"
    THEN [pc |-> "asleep", op |-> op, was_already_reading |-> FALSE]
    ELSE Idle

\* observed when a stop_reading returns: the sensor is stopped unless
\* another call has set is_reading again
StopReturned(obs, reading_now) == [obs EXCEPT !.stopped = ~reading_now]

\* observed when a calibrate_resting_hr returns
CalibrateReturned(obs, was_already_reading, reading_now) ==
    [obs EXCEPT !.calibrated =
        [was_reading |-> was_already_reading, reading |-> reading_now,
         only_calibrations |-> obs.only_calibrations]]

\* start_reading, lines 94-102: connect if needed (on a real sensor it can
\* fail), then the test of is_reading
StartReadingTests(c, op) ==
    /\ Cardinality(Unborn) > Cardinality(Starting)
    /\ \E connects \in {TRUE, FALSE} :
         /\ is_connected' = (is_connected \/ connects)
         /\ caller' = [caller EXCEPT ![c] =
               IF ~is_connected' \/ is_reading
               THEN AfterStart(op)
               ELSE [pc |-> "starting", op |-> op]]

\* a call of start_reading by the application
CallStartReading(c) ==
    /\ caller[c].pc = "idle"
    /\ StartReadingTests(c, "start_reading")
    /\ observed' = [observed EXCEPT !.only_calibrations = FALSE]
    /\ UNCHANGED <<is_reading, reading_thread, callback, thread_at>>
    /\ UNCHANGED other_than_reader

\* start_reading, lines 104-111: the callback, the flag, the thread and
\* its start; calibrate_resting_hr passes no callback
StartThread(c) ==
    /\ caller[c].pc = "starting"
    /\ \E given \in {TRUE, FALSE} :
         /\ caller[c].op = "calibrate_resting_hr" => ~given
         /\ callback' = given
    /\ is_reading' = TRUE
    /\ LET t == CHOOSE u \in Unborn : \A v \in Unborn : u <= v
       IN /\ reading_thread' = t
          /\ thread_at' = [thread_at EXCEPT ![t] = "test"]
    /\ observed' = [observed EXCEPT
                       !.started_while_reading = @ \/ is_reading,
                       !.stopped = FALSE]
    /\ caller' = [caller EXCEPT ![c] = AfterStart(caller[c].op)]
    /\ UNCHANGED is_connected
    /\ UNCHANGED other_than_reader

\* the caller after its stop_reading has returned
AfterStop(op) ==
    IF op = "disconnect" THEN [pc |-> "closing", op |-> op] ELSE Idle

\* stop_reading, lines 115-116: the flag, and the test of the thread
StopReadingBegins(c, op) ==
    /\ is_reading' = FALSE
    /\ caller' = [caller EXCEPT ![c] =
          IF IsAlive(reading_thread)
          THEN [pc |-> "joining", op |-> op, thread |-> reading_thread]
          ELSE AfterStop(op)]

\* a call of stop_reading by the application
CallStopReading(c) ==
    /\ caller[c].pc = "idle"
    /\ StopReadingBegins(c, "stop_reading")
    /\ observed' =
          LET obs == [observed EXCEPT !.only_calibrations = FALSE]
          IN IF IsAlive(reading_thread) THEN obs
             ELSE StopReturned(obs, FALSE)
    /\ UNCHANGED <<is_connected, reading_thread, callback, thread_at>>
    /\ UNCHANGED other_than_reader

\* a call of disconnect by the application: stop_reading first
CallDisconnect(c) ==
    /\ caller[c].pc = "idle"
    /\ StopReadingBegins(c, "disconnect")
    /\ observed' =
          LET obs == [observed EXCEPT !.only_calibrations = FALSE]
          IN IF IsAlive(reading_thread) THEN obs
             ELSE StopReturned(obs, FALSE)
    /\ UNCHANGED <<is_connected, reading_thread, callback, thread_at>>
    /\ UNCHANGED other_than_reader

\* reading_thread.join(timeout=2.0) returns: the thread has ended, or two
\* seconds have passed while the thread is inside the callback
JoinReturns(c) ==
    /\ caller[c].pc = "joining"
    /\ thread_at[caller[c].thread] \in {"done", "callback"}
    /\ caller' = [caller EXCEPT ![c] = AfterStop(caller[c].op)]
    /\ observed' =
          LET obs == StopReturned(observed, is_reading)
          IN IF caller[c].op = "calibrate_resting_hr"
             THEN CalibrateReturned(obs, FALSE, is_reading) ELSE obs
    /\ UNCHANGED <<is_connected, is_reading, reading_thread, callback,
                   thread_at>>
    /\ UNCHANGED other_than_reader

\* disconnect, lines 78-85
DisconnectEnds(c) ==
    /\ caller[c].pc = "closing"
    /\ is_connected' = FALSE
    /\ caller' = [caller EXCEPT ![c] = Idle]
    /\ UNCHANGED <<is_reading, reading_thread, callback, thread_at, observed>>
    /\ UNCHANGED other_than_reader

\* calibrate_resting_hr, lines 211-216: was_already_reading
CallCalibrate(c) ==
    /\ caller[c].pc = "idle"
    /\ caller' = [caller EXCEPT ![c] =
          IF is_reading
          THEN [pc |-> "asleep", op |-> "calibrate_resting_hr",
                was_already_reading |-> TRUE]
          ELSE [pc |-> "calibrating", op |-> "calibrate_resting_hr"]]
    /\ UNCHANGED <<is_connected, is_reading, reading_thread, callback,
                   thread_at, observed>>
    /\ UNCHANGED other_than_reader

\* calibrate_resting_hr, line 217: self.start_reading()
CalibrateStartsReading(c) ==
    /\ caller[c].pc = "calibrating"
    /\ StartReadingTests(c, "calibrate_resting_hr")
    /\ UNCHANGED <<is_reading, reading_thread, callback, thread_at, observed>>
    /\ UNCHANGED other_than_reader

\* calibrate_resting_hr, lines 220-258: after the sleep, with or without
\* samples, stop_reading if this call found the sensor not reading
CalibrateWakes(c) ==
    /\ caller[c].pc = "asleep"
    /\ IF caller[c].was_already_reading
       THEN /\ caller' = [caller EXCEPT ![c] = Idle]
            /\ observed' = CalibrateReturned(observed, TRUE, is_reading)
            /\ UNCHANGED is_reading
       ELSE /\ StopReadingBegins(c, "calibrate_resting_hr")
            /\ observed' =
                  IF IsAlive(reading_thread) THEN observed
                  ELSE CalibrateReturned(StopReturned(observed, FALSE),
                                         FALSE, FALSE)
    /\ UNCHANGED <<is_connected, reading_thread, callback, thread_at>>
    /\ UNCHANGED other_than_reader

\* _reading_loop, line 303: while self.is_reading
LoopTests(t) ==
    /\ thread_at[t] = "test"
    /\ thread_at' = [thread_at EXCEPT ![t] =
                        IF is_reading THEN "reading" ELSE "done"]
    /\ UNCHANGED <<is_connected, is_reading, reading_thread, callback,
                   caller, observed>>
    /\ UNCHANGED other_than_reader

\* _reading_loop, lines 305-309: the reading, then the callback if there
\* is one
LoopReads(t) ==
    /\ thread_at[t] = "reading"
    /\ thread_at' = [thread_at EXCEPT ![t] =
                        IF callback THEN "callback" ELSE "sleep"]
    /\ observed' = [observed EXCEPT !.read_after_stop = @ \/ observed.stopped]
    /\ UNCHANGED <<is_connected, is_reading, reading_thread, callback, caller>>
    /\ UNCHANGED other_than_reader

\* the callback returns or raises
CallbackEnds(t) ==
    /\ thread_at[t] = "callback"
    /\ thread_at' = [thread_at EXCEPT ![t] = "sleep"]
    /\ UNCHANGED <<is_connected, is_reading, reading_thread, callback,
                   caller, observed>>
    /\ UNCHANGED other_than_reader

\* time.sleep(1.0), or time.sleep(2.0) after an exception
LoopWakes(t) ==
    /\ thread_at[t] = "sleep"
    /\ thread_at' = [thread_at EXCEPT ![t] = "test"]
    /\ UNCHANGED <<is_connected, is_reading, reading_thread, callback,
                   caller, observed>>
    /\ UNCHANGED other_than_reader

NextReader ==
    \/ \E c \in ReaderCallers : CallStartReading(c)
    \/ \E c \in ReaderCallers : StartThread(c)
    \/ \E c \in ReaderCallers : CallStopReading(c)
    \/ \E c \in ReaderCallers : CallDisconnect(c)
    \/ \E c \in ReaderCallers : JoinReturns(c)
    \/ \E c \in ReaderCallers : DisconnectEnds(c)
    \/ \E c \in ReaderCallers : CallCalibrate(c)
    \/ \E c \in ReaderCallers : CalibrateStartsReading(c)
    \/ \E c \in ReaderCallers : CalibrateWakes(c)
    \/ \E t \in LoopThreads : LoopTests(t)
    \/ \E t \in LoopThreads : LoopReads(t)
    \/ \E t \in LoopThreads : CallbackEnds(t)
    \/ \E t \in LoopThreads : LoopWakes(t)

\* the _reading_loop threads that are running
Running == {t \in LoopThreads : IsAlive(t)}

\* C27: at most one _reading_loop thread is running at any time,
\* start_reading never starts a thread while the sensor is already
\* reading, and no loop takes a reading after a stop_reading has returned
\* and before reading is started again.
C27_OneReadingLoop ==
    /\ Cardinality(Running) <= 1
    /\ ~observed.started_while_reading
    /\ ~observed.read_after_stop

\* C28: a calibrate_resting_hr that returns, with no call other than
\* calibrations made on the sensor, leaves is_reading as it found it.
C28_CalibrationRestoresReading ==
    ("reading" \in DOMAIN observed.calibrated
     /\ observed.calibrated.only_calibrations)
    => observed.calibrated.reading = observed.calibrated.was_reading

(* ====================================================================== *)
(* SpotifyClient tokens: __init__, get_tokens_from_code,                  *)
(* refresh_access_token, get_client_credentials_token,                    *)
(* ensure_token_valid, make_api_request (spotify_api.py 30-182).          *)
(* Times are in seconds; a token is named by the grant that issued it.    *)
(* ====================================================================== *)
MaxTicks == 3

\* time.time() when the client is constructed
StartTime == 10000
\* the steps of the clock
ClockSteps == {1, 59, 3540}
\* tokens["expires_in"] of the accounts service
ExpiresIn == {30, 3600}

\* variant: a token is renewed only once it has expired
token_needs_renewal_when_expired(token, expiry, time) ==
    token = None \/ time >= expiry

\* ensure_token_valid, line 144
TokenNeedsRenewal(token, expiry, time) ==
    token = None \/ time >= expiry - 60

InitToken ==
    /\ access_token = None
    /\ token_expiry = 0
    /\ refresh_token = None
    /\ now = StartTime
    /\ ticks = 0
    /\ api_call = Pending

\* __init__, lines 39-46: the refresh token and the cached access token of
\* the environment, when they are set
LoadEnvironment ==
    /\ api_call = Pending
    /\ access_token = None
    /\ refresh_token = None
    /\ ticks = 0
    /\ \E stored_refresh \in {None, Some("env")},
          cached \in {None} \cup
                     {Some(left) : left \in {-100, 59, 60, 61, 3600}} :
         /\ refresh_token' = stored_refresh
         /\ access_token' = IF cached = None THEN None ELSE Some("env")
         /\ token_expiry' = IF cached = None THEN 0 ELSE now + cached[1]
         /\ api_call' = [op |-> "__init__"]
    /\ UNCHANGED <<now, ticks>>
    /\ UNCHANGED other_than_token

Tick ==
    /\ ticks < MaxTicks
    /\ \E step \in ClockSteps : now' = now + step
    /\ ticks' = ticks + 1
    /\ UNCHANGED <<access_token, token_expiry, refresh_token, api_call>>
    /\ UNCHANGED other_than_token

\* get_tokens_from_code, lines 65-88, with an answer of status 200: the
\* three attributes are assigned at lines 81-83, before the environment is
\* written
GetTokensFromCode ==
    /\ api_call # Pending
    /\ \E expires_in \in ExpiresIn, with_refresh \in {TRUE, FALSE} :
         /\ access_token' = Some("authorization_code")
         /\ refresh_token' = IF with_refresh THEN Some("authorization_code")
                             ELSE refresh_token
         /\ token_expiry' = now + expires_in
         /\ api_call' = [op |-> "get_tokens_from_code"]
    /\ UNCHANGED <<now, ticks>>
    /\ UNCHANGED other_than_token

\* make_api_request, lines 155-182, of a supported method, with the
\* ensure_token_valid it starts with.  A renewal answers with status 200
\* and new tokens, or raises (raise_for_status, or the request itself), and
\* then nothing of make_api_request after line 157 runs.
MakeApiRequest ==
    /\ api_call # Pending
    /\ LET needed == TokenNeedsRenewal(access_token, token_expiry, now)
           grant == IF ~needed THEN "none"
                    ELSE IF refresh_token # None THEN "refresh_token"
                    ELSE "client_credentials"
           checked == [token |-> access_token,
                       left |-> token_expiry - now,
                       refresh_token |-> refresh_token]
       IN \/ /\ ~needed
             /\ api_call' = [op |-> "make_api_request", checked |-> checked,
                             grant |-> grant, renewal |-> "none",
                             request |-> Some([token |-> access_token,
                                               left |-> token_expiry - now])]
             /\ UNCHANGED <<access_token, token_expiry, refresh_token>>
          \/ /\ needed
             /\ \E expires_in \in ExpiresIn, new_refresh \in {TRUE, FALSE} :
                  /\ new_refresh => grant = "refresh_token"
                  /\ access_token' = Some(grant)
                  /\ token_expiry' = now + expires_in
                  /\ refresh_token' = IF new_refresh THEN Some(grant)
                                      ELSE refresh_token
                  /\ api_call' = [op |-> "make_api_request",
                                  checked |-> checked, grant |-> grant,
                                  renewal |-> "done",
                                  request |-> Some([token |-> access_token',
                                                    left |-> token_expiry'
                                                             - now])]
          \/ /\ needed
             /\ api_call' = [op |-> "make_api_request", checked |-> checked,
                             grant |-> grant, renewal |-> "raised",
                             request |-> None]
             /\ UNCHANGED <<access_token, token_expiry, refresh_token>>
    /\ UNCHANGED <<now, ticks>>
    /\ UNCHANGED other_than_token

NextToken ==
    \/ LoadEnvironment
    \/ Tick
    \/ GetTokensFromCode
    \/ MakeApiRequest

ApiRequestMade == "request" \in DOMAIN api_call

\* C29: a request that make_api_request sends carries a token; it is the
\* token that was found with more than 60 seconds left, or the token of a
\* renewal made because the token was missing or had at most 60 seconds
\* left; the renewal uses the refresh token when there is one and client
\* credentials otherwise; when the renewal fails no request is sent.
C29_RequestsCarryFreshToken ==
    ApiRequestMade =>
        LET checked == api_call.checked
            fresh == checked.token # None /\ checked.left > 60
        IN /\ api_call.request # None =>
                 /\ api_call.request[1].token # None
                 /\ api_call.renewal = "none" =>
                       /\ fresh
                       /\ api_call.request[1].token = checked.token
                       /\ api_call.request[1].left > 60
                 /\ api_call.renewal = "done" =>
                       /\ api_call.request[1].token = Some(api_call.grant)
                       /\ api_call.request[1].left \in ExpiresIn
           /\ fresh <=> api_call.renewal = "none"
           /\ ~fresh =>
                 api_call.grant = IF checked.refresh_token # None
                                  THEN "refresh_token"
                                  ELSE "client_credentials"
           /\ api_call.renewal = "raised" => api_call.request = None

\* a cached token with exactly 60 seconds left and no refresh token: the
\* request carries a client-credentials token
C29_Witness ==
    /\ ApiRequestMade
    /\ api_call.checked.token = Some("env")
    /\ api_call.checked.left = 60
    /\ api_call.checked.refresh_token = None
    /\ api_call.request # None
    /\ api_call.request[1].token = Some("client_credentials")

(* ====================================================================== *)
(* The OAuth flow of app.py: login (lines 46-70) and callback (lines      *)
(* 270-313), on the session of one browser.  A query parameter or session *)
(* key is None when absent and Some(text) otherwise; the text can be      *)
(* empty.                                                                 *)
(* ====================================================================== *)
MaxLogins == 2

\* the truth value of request.args.get(...) and session.get(...)
NonEmpty(value) == value # None /\ value[1] # ""

\* str(uuid.uuid4()) of the n-th login
StateOf(n) == "state-" \o ToString(n)

\* what a request to /callback can carry
CallbackCodes == {None, Some("code")}
CallbackStates == {None, Some("")} \cup {Some(StateOf(n)) : n \in 1..MaxLogins}
CallbackErrors == {None, Some(""), Some("access_denied")}

\* variant: any two non-empty states are accepted
states_accepted_without_comparison(state, stored_state) ==
    NonEmpty(state) /\ NonEmpty(stored_state)

\* lines 285-292: neither redirect is taken
StatesAccepted(state, stored_state) ==
    /\ ~(~NonEmpty(state) \/ ~NonEmpty(stored_state))
    /\ ~(state # stored_state)

EmptySession == [logins |-> 0, state |-> None, access_token |-> None,
                 refresh_token |-> None]

InitOAuth ==
    /\ session = EmptySession
    /\ callback_call = Pending

\* login: a new state replaces the stored one
Login ==
    /\ session.logins < MaxLogins
    /\ session' = [session EXCEPT !.logins = @ + 1,
                                  !.state = Some(StateOf(session.logins + 1))]
    /\ UNCHANGED callback_call
    /\ UNCHANGED other_than_oauth

\* the session cookie is lost or has expired: the next request starts
\* with an empty session
SessionLost ==
    /\ session.state # None
    /\ session' = [EmptySession EXCEPT !.logins = session.logins]
    /\ UNCHANGED callback_call
    /\ UNCHANGED other_than_oauth

\* what get_spotify_tokens can do: return both tokens, return a dict with
\* 'error', return an access token without 'refresh_token', or raise
ExchangeOutcomes == {"tokens", "error", "no_refresh_token", "raises"}

\* callback, lines 270-313
Callback ==
    \E code \in CallbackCodes, state \in CallbackStates,
       error \in CallbackErrors, outcome \in ExchangeOutcomes :
        LET stored_state == session.state
            args == [code |-> code, state |-> state, error |-> error]
            Rejected(reason) ==
                /\ session' = session
                /\ callback_call' =
                      [args |-> args, before |-> session,
                       after |-> session', exchanged |-> FALSE,
                       redirect |-> [error |-> reason]]
        IN /\ IF NonEmpty(error) THEN Rejected(error[1])
              ELSE IF ~NonEmpty(state) \/ ~NonEmpty(stored_state)
              THEN Rejected("state_missing")
              ELSE IF ~StatesAccepted(state, stored_state)
              THEN Rejected("state_mismatch")
              ELSE /\ session' =
                        IF outcome = "tokens"
                        THEN [session EXCEPT
                                 !.access_token = Some("access"),
                                 !.refresh_token = Some("refresh")]
                        ELSE IF outcome = "no_refresh_token"
                        THEN [session EXCEPT !.access_token = Some("access")]
                        ELSE session
                   /\ callback_call' =
                         [args |-> args, before |-> session,
                          after |-> session', exchanged |-> TRUE,
                          redirect |->
                              IF outcome = "tokens"
                              THEN [access_token |-> "access",
                                    refresh_token |-> "refresh"]
                              ELSE [error |-> outcome]]
           /\ UNCHANGED other_than_oauth

NextOAuth ==
    \/ Login
    \/ SessionLost
    \/ Callback

CallbackHandled == "args" \in DOMAIN callback_call
TokensOf(s) == <<s.access_token, s.refresh_token>>

\* what every callback does when it makes no exchange
NoExchangeMade ==
    /\ "error" \in DOMAIN callback_call.redirect
    /\ ~callback_call.exchanged
    /\ TokensOf(callback_call.after) = TokensOf(callback_call.before)

\* C30 as stated: the callback exchanges the code and stores tokens only
\* when the request carries no error parameter and the returned and the
\* stored state are non-empty and equal; in every other case it redirects
\* with an error, makes no exchange and leaves the session's tokens as
\* they were.
C30_ExchangeOnlyWithoutErrorParameter ==
    CallbackHandled =>
        LET args == callback_call.args
            stored_state == callback_call.before.state
            allowed == /\ args.error = None
                       /\ NonEmpty(args.state)
                       /\ NonEmpty(stored_state)
                       /\ args.state = stored_state
        IN /\ callback_call.exchanged => allowed
           /\ TokensOf(callback_call.after) # TokensOf(callback_call.before) => allowed
           /\ ~allowed => NoExchangeMade

\* C30 amended: the same, with "no error parameter" replaced by "no error
\* parameter or an empty one"; under these conditions the exchange is
\* always made.
C30_ExchangeOnlyWithMatchingState ==
    CallbackHandled =>
        LET args == callback_call.args
            stored_state == callback_call.before.state
            allowed == /\ ~NonEmpty(args.error)
                       /\ NonEmpty(args.state)
                       /\ NonEmpty(stored_state)
                       /\ args.state = stored_state
        IN /\ callback_call.exchanged <=> allowed
           /\ TokensOf(callback_call.after) # TokensOf(callback_call.before) => allowed
           /\ ~allowed => NoExchangeMade

\* the state of the first login comes back after a second login replaced
\* it: no exchange, and the tokens of the first exchange stay
C30_Witness ==
    /\ CallbackHandled
    /\ callback_call.args.state = Some(StateOf(1))
    /\ callback_call.before.state = Some(StateOf(2))
    /\ callback_call.args.error = None
    /\ callback_call.redirect = [error |-> "state_mismatch"]
    /\ callback_call.before.access_token = Some("access")
    /\ callback_call.after.access_token = Some("access")

(* --------------------------- specifications --------------------------- *)
Init ==
    /\ InitEmotion
    /\ InitPlaylist
    /\ InitLists
    /\ InitRecommend
    /\ InitSensors
    /\ InitHeap
    /\ InitBatch
    /\ InitReader
    /\ InitToken
    /\ InitOAuth

Spec == Init /\ [][Next]_vars

SpecPlaylist == Init /\ [][NextPlaylist]_vars

SpecLists == Init /\ [][NextLists]_vars

SpecRecommend == Init /\ [][NextRecommend]_vars

SpecSensors == Init /\ [][NextSensors]_vars

SpecHeap == Init /\ [][NextHeap]_vars

SpecBatch == Init /\ [][NextBatch]_vars

SpecReader == Init /\ [][NextReader]_vars

SpecToken == Init /\ [][NextToken]_vars

SpecOAuth == Init /\ [][NextOAuth]_vars
====
